---------------------------- MODULE Spec2Model ----------------------------
(***************************************************************************)
(* ImageVisLab: the pixel-level algorithm library (point operations,       *)
(* convolution, morphology, FFT spectrum, custom filters).                 *)
(*                                                                         *)
(* A caller builds an ImageData buffer, calls one engine operation on it   *)
(* and receives an ImageData.  Buffers live in a heap (a sequence indexed  *)
(* by buffer identity) so that allocation, aliasing and in-place writes    *)
(* are visible in the state.                                               *)
(***************************************************************************)
EXTENDS Integers, Sequences, FiniteSets, TLC

\* the engine: the buffers, the call made and what it returned
VARIABLES heap, call, err, fftLens, spectrum, shifted
\* the rows of an operation computed by several workers
VARIABLES workers
\* useHistory
VARIABLES history, currentIndex
\* the state of the App component; before is the filter and the parameters
\* in effect before the latest change event, steps counts the events
VARIABLES activeFilter, filterParams, originalImage, processedImage, isProcessing,
          before, steps
\* useImageWorker, the promises it returned and the messages in flight
\* between the main thread and the worker
VARIABLES mounted, enabled, workerRef, requestIdRef, pendingRequestsRef, isReady,
          promises, toWorker, toMain

appVars == <<activeFilter, filterParams, originalImage, processedImage, isProcessing,
             before>>
hookVars == <<mounted, enabled, workerRef, requestIdRef, pendingRequestsRef, isReady,
              promises, toWorker, toMain>>

vars == <<heap, call, err, fftLens, spectrum, shifted, workers, history, currentIndex,
          appVars, steps, hookVars>>

-----------------------------------------------------------------------------
(* Bounds of the model.                                                    *)

\* largest width / height of the images given to the full operation set
MaxW == 2
MaxH == 2
\* largest width / height of the images given to the convolution engine
MaxConvW == 3
MaxConvH == 3
\* largest side of the images given to the morphology engine, and the
\* largest number of pixels that differ from the image's background
MaxMorphDim == 4
MaxSpots == 2
\* largest width / height of the images given to the FFT, and the largest
\* number of pixels that differ from the background there
MaxFFTDim == 4
MaxFFTSpots == 1
\* largest levels argument given to applyQuantization
MaxLevels == 258
\* largest number of pixels that differ from the background in the images
\* given to the morphological operations
MaxMorphSpots == 2

\* the fraction digits of a number of a formula that are read
MaxFractionDigits == 4
\* largest number of pixels that differ from the background in the images
\* given to applyCustomFormula
MaxFormulaSpots == 1
\* largest height of the images whose rows are computed by several
\* workers, and the largest number of workers
MaxRows == 3
MaxWorkers == 2
\* largest number of events of the user handled by the App
MaxEvents == 4
\* largest number of calls made on useHistory
MaxCalls == 2
\* largest number of pixels of the images given to applyEqualization: with
\* more than 255 pixels two levels of the input can get the same output
MaxRamp == 300

-----------------------------------------------------------------------------
(* Numbers.                                                                *)

Min2(a, b) == IF a < b THEN a ELSE b
Max2(a, b) == IF a > b THEN a ELSE b
Abs(a) == IF a < 0 THEN -a ELSE a

RECURSIVE Pow2(_)
Pow2(n) == IF n = 0 THEN 1 ELSE 2 * Pow2(n - 1)

\* Math.floor(num / den), den > 0

\* Math.round(num / den), den > 0: the nearest integer, a tie going up
MathRound(num, den) == (2 * num + den) \div (2 * den)

\* The conversion of the number num / den (den > 0) on a store into a
\* Uint8ClampedArray: clamped to [0, 255], rounded to the nearest integer,
\* a tie going to the even neighbour.
ToUint8Clamped(num, den) ==
    IF num <= 0 THEN 0
    ELSE IF num >= 255 * den THEN 255
    ELSE LET q == num \div den
             r == num % den
         IN  IF 2 * r < den THEN q
             ELSE IF 2 * r > den THEN q + 1
             ELSE IF q % 2 = 0 THEN q ELSE q + 1

-----------------------------------------------------------------------------
(* IEEE-754 binary64 values of the magnitudes the point and threshold      *)
(* operations compute.  A value is a fixed-point number: four limbs of 22  *)
(* bits, least significant first, in units of 2^-66, so that limb 4 is the *)
(* integer part.  Every value held is below 2^9.                           *)

LimbBits == 22
LimbBase == 4194304

\* carry propagation over limbs that may exceed the base
DblNorm(x) ==
    LET c1 == x[1] \div LimbBase
        l2 == x[2] + c1
        c2 == l2 \div LimbBase
        l3 == x[3] + c2
        c3 == l3 \div LimbBase
    IN  <<x[1] % LimbBase, l2 % LimbBase, l3 % LimbBase, x[4] + c3>>

RECURSIVE BitLength(_)
BitLength(n) == IF n = 0 THEN 0 ELSE 1 + BitLength(n \div 2)

\* round-to-nearest, ties-to-even, to 53 significant bits: the rounding of
\* every double-precision operation
DblRound(x) ==
    LET bits == IF x[4] > 0 THEN 3 * LimbBits + BitLength(x[4])
                ELSE IF x[3] > 0 THEN 2 * LimbBits + BitLength(x[3])
                ELSE IF x[2] > 0 THEN LimbBits + BitLength(x[2])
                ELSE BitLength(x[1])   \* the significant bits of x
        \* the bits below ulp are dropped, and ulp is added when they are more
        \* than half of it, or half of it and the bit of ulp is set
        RoundTo(ulp, odd) ==
            LET rem == x[1] % ulp
                up  == 2 * rem > ulp \/ (2 * rem = ulp /\ odd)
            IN  DblNorm(<<x[1] - rem + (IF up THEN ulp ELSE 0), x[2], x[3], x[4]>>)
        Round(s) ==
            IF s <= 0 THEN x
            ELSE IF s < LimbBits THEN RoundTo(Pow2(s), (x[1] \div Pow2(s)) % 2 = 1)
            ELSE RoundTo(Pow2(s), x[2] % 2 = 1)
    IN  Round(bits - 53)

\* the exact product of a value and an integer 0..255, then its rounding
DblMulInt(x, k) == DblRound(DblNorm(<<x[1] * k, x[2] * k, x[3] * k, x[4] * k>>))

\* the double sum of two values
DblAdd(x, y) == DblRound(DblNorm(<<x[1] + y[1], x[2] + y[2], x[3] + y[3], x[4] + y[4]>>))

\* the double quotient n / d of two integers, 0 <= n, 0 < d < 512: long
\* division limb by limb; a non-zero remainder is kept as a sticky bit so
\* that the rounding is the correct rounding of the exact quotient
DblDivInt(n, d) ==
    LET l4 == n \div d
        r4 == n % d
        l3 == (r4 * LimbBase) \div d
        r3 == (r4 * LimbBase) % d
        l2 == (r3 * LimbBase) \div d
        r2 == (r3 * LimbBase) % d
        l1 == (r2 * LimbBase) \div d
        r1 == (r2 * LimbBase) % d
        sticky == IF r1 > 0 /\ l1 % 2 = 0 THEN 1 ELSE 0
    IN  DblRound(<<l1 + sticky, l2, l3, l4>>)

\* Math.round of a value; Math.floor of x is x[4]
DblMathRound(x) == IF x[3] >= LimbBase \div 2 THEN x[4] + 1 ELSE x[4]

\* value >= integer t
DblGeqInt(x, t) == x[4] >= t

\* w[1] * r + w[2] * g + w[3] * b as JavaScript evaluates it: three rounded
\* products, added from the left, each sum rounded
DblWeighted(w, r, g, b) ==
    DblAdd(DblAdd(DblMulInt(w[1], r), DblMulInt(w[2], g)), DblMulInt(w[3], b))

\* 0.299 * r + 0.587 * g + 0.114 * b, with the doubles of the three literals
Luminance(r, g, b) ==
    DblWeighted(<< <<1609728, 3758096, 1254096, 0>>,
                   <<802816, 1879048, 2462056, 0>>,
                   <<1778688, 2751463, 478150, 0>> >>, r, g, b)

-----------------------------------------------------------------------------
(* Pixel buffers.  ImageData: width, height and data, the samples of the   *)
(* pixels in row-major order, four per pixel (red, green, blue, alpha).    *)
(* The source indexes data from 0; At(data, i) is data[i].                 *)

\* an array: the sequence of the elements of f, each computed once
Array(f) == f \o <<>>

\* the element of a singleton.  A value that is read many times is bound by
\* a quantifier over its singleton, Only({e(v) : v \in {value}}), so that it
\* is computed once.
Only(S) == CHOOSE e \in S : TRUE

ImageData(data, width, height) ==
    [data |-> Array(data), width |-> width, height |-> height]

At(data, i) == data[i + 1]

\* the channel (0 red, 1 green, 2 blue, 3 alpha) and the pixel of the
\* sample at position p of the sequence data (positions start at 1)
ChannelOf(p) == (p - 1) % 4
PixelOf(p) == (p - 1) \div 4

\* new Uint8ClampedArray(length) filled by the loops of an operation: the
\* sample of pixel (x, y), channel c is f[x, y, c]
Filled(width, height, f(_, _, _)) ==
    [p \in 1..(4 * width * height) |->
        f(PixelOf(p) % width, PixelOf(p) \div width, ChannelOf(p))]

\* the heap after allocating a buffer, and the identity of the new buffer
Alloc(h, img) == [heap |-> Append(h, img), ret |-> Len(h) + 1]

-----------------------------------------------------------------------------
(* Point operations (imageFilters).                                        *)

\* the loop "data[i] = lookupTable[data[i]]" over the colour channels
ApplyLUT(data, lut) ==
    [p \in 1..Len(data) |-> IF ChannelOf(p) = 3 THEN data[p] ELSE lut[data[p]]]

NegativeDataFrom256(data) ==
    [p \in 1..Len(data) |-> IF ChannelOf(p) = 3 THEN data[p] ELSE Min2(255, 256 - data[p])]

NegativeData(data) ==
    [p \in 1..Len(data) |-> IF ChannelOf(p) = 3 THEN data[p] ELSE 256 - 1 - data[p]]

applyNegativeInPlace(h, id) ==
    [heap |-> [h EXCEPT ![id].data = NegativeData(h[id].data)], ret |-> id]

applyNegative(h, id) ==
    Alloc(h, ImageData(NegativeData(h[id].data), h[id].width, h[id].height))

\* Math.floor(Math.sqrt(n)) of an integer n >= 0
RECURSIVE Isqrt(_)
Isqrt(n) ==
    IF n < 2 THEN n
    ELSE LET s == 2 * Isqrt(n \div 4)
         IN  IF (s + 1) * (s + 1) <= n THEN s + 1 ELSE s

\* the table of gamma = 2 whatever the gamma
GammaLUTSquared(gamma2, c) ==
    [i \in 0..255 |-> Min2(255, MathRound(c * i * i, 255))]

\* lookupTable[i] of applyGamma for gamma = gamma2 / 2 in {1/2, 1, 2} and
\* an integer c: Math.round(min(255, max(0, c * (i / 255) ^ gamma * 255))).
\* For gamma = 1 the quotient and the products are those of binary64.
GammaLUT(gamma2, c) ==
    [i \in 0..255 |->
        IF gamma2 = 2
        THEN Only({IF DblGeqInt(t, 255) THEN 255 ELSE DblMathRound(t) :
                      t \in {DblMulInt(DblMulInt(DblDivInt(i, 255), c), 255)}})
        ELSE IF gamma2 = 4 THEN Min2(255, MathRound(c * i * i, 255))
        ELSE Min2(255, (Isqrt(4 * c * c * 255 * i) + 1) \div 2)]

applyGamma(h, id, gamma2, c) ==
    Alloc(h, ImageData(ApplyLUT(h[id].data, GammaLUT(gamma2, c)),
                       h[id].width, h[id].height))

\* lookupTable of applyLog for c = 1:
\* Math.round(min(255, max(0, 255 / Math.log(256) * Math.log(1 + i))))
LogTable ==
    <<
         0,  32,  51,  64,  74,  82,  89,  96, 101, 106, 110, 114, 118, 121, 125, 128,
       130, 133, 135, 138, 140, 142, 144, 146, 148, 150, 152, 153, 155, 156, 158, 159,
       161, 162, 163, 165, 166, 167, 168, 170, 171, 172, 173, 174, 175, 176, 177, 178,
       179, 180, 181, 182, 183, 183, 184, 185, 186, 187, 188, 188, 189, 190, 191, 191,
       192, 193, 193, 194, 195, 195, 196, 197, 197, 198, 199, 199, 200, 200, 201, 202,
       202, 203, 203, 204, 204, 205, 205, 206, 206, 207, 207, 208, 208, 209, 209, 210,
       210, 211, 211, 212, 212, 213, 213, 214, 214, 214, 215, 215, 216, 216, 217, 217,
       217, 218, 218, 219, 219, 219, 220, 220, 221, 221, 221, 222, 222, 222, 223, 223,
       223, 224, 224, 225, 225, 225, 226, 226, 226, 227, 227, 227, 228, 228, 228, 229,
       229, 229, 229, 230, 230, 230, 231, 231, 231, 232, 232, 232, 233, 233, 233, 233,
       234, 234, 234, 235, 235, 235, 235, 236, 236, 236, 236, 237, 237, 237, 238, 238,
       238, 238, 239, 239, 239, 239, 240, 240, 240, 240, 241, 241, 241, 241, 242, 242,
       242, 242, 242, 243, 243, 243, 243, 244, 244, 244, 244, 245, 245, 245, 245, 245,
       246, 246, 246, 246, 247, 247, 247, 247, 247, 248, 248, 248, 248, 248, 249, 249,
       249, 249, 249, 250, 250, 250, 250, 250, 251, 251, 251, 251, 251, 252, 252, 252,
       252, 252, 253, 253, 253, 253, 253, 254, 254, 254, 254, 254, 254, 255, 255, 255 >>


applyLog(h, id) ==
    Alloc(h, ImageData(ApplyLUT(h[id].data, [i \in 0..255 |-> LogTable[i + 1]]), h[id].width, h[id].height))

\* levels = Math.max(2, Math.min(256, levels))

\* lookupTable of applyQuantization.  step is the double 255 / (levels - 1).
\* Math.round(i / step) is the rounding of the exact i * (levels - 1) / 255:
\* that quotient is never half an integer (2 * i * (levels - 1) is even,
\* 255 * (2k + 1) is odd) and lies at least 1/510 from one.  The product
\* with step and the final Math.round are taken on the doubles.
QuantizationLUTHalfSteps(levels) ==
    LET L    == Max2(2, Min2(256, levels))
        step == DblDivInt(255, 2 * (L - 1))
    IN  [i \in 0..255 |->
            LET quantized == DblMulInt(step, MathRound(2 * i * (L - 1), 255))
            IN  IF DblGeqInt(quantized, 255) THEN 255 ELSE DblMathRound(quantized)]

QuantizationLUT(levels) ==
    LET L    == Max2(2, Min2(256, levels))
        step == DblDivInt(255, L - 1)
    IN  [i \in 0..255 |->
            LET quantized == DblMulInt(step, MathRound(i * (L - 1), 255))
            IN  IF DblGeqInt(quantized, 255) THEN 255 ELSE DblMathRound(quantized)]

\* the lookup table read one entry too far
applyQuantizationNextEntry(h, id, levels) ==
    Alloc(h, ImageData(ApplyLUT(h[id].data,
                                [i \in 0..255 |-> QuantizationLUT(levels)[Min2(255, i + 1)]]),
                       h[id].width, h[id].height))

applyQuantization(h, id, levels) ==
    Alloc(h, ImageData(ApplyLUT(h[id].data, QuantizationLUT(levels)),
                       h[id].width, h[id].height))

\* factor = Math.max(1, Math.min(32, Math.round(factor)))

\* every pixel of a block takes the colour of the block's top-left pixel;
\* the alpha samples are those of the copy of the source
applySampling(h, id, factor) ==
    LET img == h[id]
        f   == Max2(1, Min2(32, factor))
        S(x, y, c) ==
            IF c = 3 THEN At(img.data, (y * img.width + x) * 4 + 3)
            ELSE At(img.data, ((y - (y % f)) * img.width + (x - (x % f))) * 4 + c)
    IN  Alloc(h, ImageData(Filled(img.width, img.height, S), img.width, img.height))

\* hist[i] summed over 0..i for channel c: the value of "cumulative" when
\* createLUT reaches i
Cumulative(data, c, i) ==
    Cardinality({p \in 1..Len(data) : ChannelOf(p) = c /\ data[p] <= i})

\* createLUT: lut[i] = Math.round((cumulative / totalPixels) * (L - 1)),
\* the quotient and the product being doubles
EqualizationLUT(data, c, totalPixels) ==
    [i \in 0..255 |->
        DblMathRound(DblMulInt(DblDivInt(Cumulative(data, c, i), totalPixels), 256 - 1))]

\* the tables applied to the first pixel only
applyEqualizationFirstPixel(h, id) ==
    LET img  == h[id]
        tot  == img.width * img.height
        data == [p \in 1..Len(img.data) |->
                    IF p <= 3 THEN EqualizationLUT(img.data, ChannelOf(p), tot)[img.data[p]]
                    ELSE img.data[p]]
    IN  Alloc(h, ImageData(data, img.width, img.height))

applyEqualization(h, id) ==
    LET img  == h[id]
        tot  == img.width * img.height
        lutR == EqualizationLUT(img.data, 0, tot)
        lutG == EqualizationLUT(img.data, 1, tot)
        lutB == EqualizationLUT(img.data, 2, tot)
        data == [p \in 1..Len(img.data) |->
                    CASE ChannelOf(p) = 0 -> lutR[img.data[p]]
                      [] ChannelOf(p) = 1 -> lutG[img.data[p]]
                      [] ChannelOf(p) = 2 -> lutB[img.data[p]]
                      [] OTHER -> img.data[p]]
    IN  Alloc(h, ImageData(data, img.width, img.height))

-----------------------------------------------------------------------------
(* Convolution engine (convolution).  A kernel is a square matrix of       *)
(* weights num[ky][kx] / den with integer num and den > 0.                 *)

Kernel(num, den) == [num |-> num, den |-> den]

KERNELS ==
    [sharpen   |-> Kernel(<< <<0, -1, 0>>, <<-1, 5, -1>>, <<0, -1, 0>> >>, 1),
     laplacian |-> Kernel(<< <<0, 1, 0>>, <<1, -4, 1>>, <<0, 1, 0>> >>, 1)]

\* generateBoxKernel: every weight is 1 / (size * size)
generateBoxKernel(size) ==
    Kernel([y \in 1..size |-> [x \in 1..size |-> 1]], size * size)

\* Math.exp(-n / 2) in units of 10^-5, for the squared distances n of a
\* kernel of size up to 5 and sigma = 1
ExpNegHalf(n) ==
    CASE n = 0 -> 100000
      [] n = 1 -> 60653
      [] n = 2 -> 36788
      [] n = 4 -> 13534
      [] n = 5 -> 8208
      [] n = 8 -> 1832

RECURSIVE SumSeq(_)
SumSeq(s) == IF s = <<>> THEN 0 ELSE Head(s) + SumSeq(Tail(s))

\* generateGaussianKernel(size, 1.0): exp(-(dx^2 + dy^2) / 2) at every
\* offset from the centre, every weight then divided by the sum
generateGaussianKernel(size) ==
    LET center == size \div 2
        value(x, y) == ExpNegHalf((x - center) * (x - center) + (y - center) * (y - center))
        num == [y \in 1..size |-> [x \in 1..size |-> value(x - 1, y - 1)]]
        sum == SumSeq([y \in 1..size |-> SumSeq(num[y])])
    IN  Kernel(num, sum)

\* the input sample a kernel cell reads for the pixel position (px, py),
\* channel c: the coordinates are clamped to the image ("clamp to edge")
ClampedSampleZeroPad(img, px, py, c) ==
    IF px < 0 \/ px >= img.width \/ py < 0 \/ py >= img.height THEN 0
    ELSE At(img.data, (py * img.width + px) * 4 + c)

ClampedSample(img, px, py, c) ==
    LET clampedX == Max2(0, Min2(img.width - 1, px))
        clampedY == Max2(0, Min2(img.height - 1, py))
    IN  At(img.data, (clampedY * img.width + clampedX) * 4 + c)

\* the kernel anchored at its top left cell instead of its centre
RECURSIVE KernelSumFromCorner(_, _, _, _, _, _)
KernelSumFromCorner(img, kernel, x, y, c, t) ==
    LET kSize == Len(kernel.num)
        ky    == t \div kSize
        kx    == t % kSize
    IN  IF t >= kSize * kSize THEN 0
        ELSE ClampedSample(img, x + kx, y + ky, c) * kernel.num[ky + 1][kx + 1]
             + KernelSumFromCorner(img, kernel, x, y, c, t + 1)

\* the loops over ky and kx, flattened to t = ky * kSize + kx: the sum of
\* sample * num over the cells t, t + 1, ...
RECURSIVE KernelSum(_, _, _, _, _, _)
KernelSum(img, kernel, x, y, c, t) ==
    LET kSize   == Len(kernel.num)
        kCenter == kSize \div 2
        ky      == t \div kSize
        kx      == t % kSize
    IN  IF t >= kSize * kSize THEN 0
        ELSE ClampedSample(img, x + kx - kCenter, y + ky - kCenter, c)
                 * kernel.num[ky + 1][kx + 1]
             + KernelSum(img, kernel, x, y, c, t + 1)

ConvolutionData(img, kernel) ==
    LET S(x, y, c) ==
            IF c = 3 THEN At(img.data, (y * img.width + x) * 4 + 3)
            ELSE ToUint8Clamped(MathRound(KernelSum(img, kernel, x, y, c, 0), kernel.den), 1)
    IN  Filled(img.width, img.height, S)

applyConvolution(h, id, kernel) ==
    Alloc(h, ImageData(ConvolutionData(h[id], kernel), h[id].width, h[id].height))

applyBoxBlur(h, id, size) == applyConvolution(h, id, generateBoxKernel(size))

applyGaussianBlur(h, id, size) == applyConvolution(h, id, generateGaussianKernel(size))

applySharpen(h, id) == applyConvolution(h, id, KERNELS.sharpen)

applyCustomKernel(h, id, kernel) == applyConvolution(h, id, kernel)

\* the signed 3x3 Laplacian sum stored without Math.abs
applyLaplacianSigned(h, id) ==
    LET img == h[id]
        S(x, y, c) ==
            IF c = 3 THEN At(img.data, (y * img.width + x) * 4 + 3)
            ELSE ToUint8Clamped(KernelSum(img, KERNELS.laplacian, x, y, c, 0), 1)
    IN  Alloc(h, ImageData(Filled(img.width, img.height, S), img.width, img.height))

\* Math.min(255, Math.abs(sum)) of the 3x3 Laplacian sum
applyLaplacian(h, id) ==
    LET img == h[id]
        S(x, y, c) ==
            IF c = 3 THEN At(img.data, (y * img.width + x) * 4 + 3)
            ELSE Min2(255, Abs(KernelSum(img, KERNELS.laplacian, x, y, c, 0)))
    IN  Alloc(h, ImageData(Filled(img.width, img.height, S), img.width, img.height))

-----------------------------------------------------------------------------
(* Median filter (noiseReduction).                                         *)

\* the element at index n (from 0) of the ascending sort of the values
\* vals[1], ..., vals[Len(vals)]
SortedAt(vals, n) ==
    CHOOSE v \in {vals[k] : k \in 1..Len(vals)} :
        /\ Cardinality({k \in 1..Len(vals) : vals[k] < v}) <= n
        /\ Cardinality({k \in 1..Len(vals) : vals[k] <= v}) > n

\* the body of the loops over y and x: the sample written for the pixel
\* (x, y), channel c
MedianSample(img, size, x, y, c) ==
    LET halfSize    == size \div 2
        medianIndex == (size * size) \div 2
        side        == 2 * halfSize + 1
        values      ==
            [t \in 1..(side * side) |->
                ClampedSample(img, x + ((t - 1) % side) - halfSize,
                                   y + ((t - 1) \div side) - halfSize, c)]
    IN  IF c = 3 THEN At(img.data, (y * img.width + x) * 4 + 3)
        ELSE SortedAt(values, medianIndex)

applyMedian(h, id, size) ==
    LET img == h[id]
        S(x, y, c) == MedianSample(img, size, x, y, c)
    IN  Alloc(h, ImageData(Filled(img.width, img.height, S), img.width, img.height))

-----------------------------------------------------------------------------
(* Morphology (morphology).                                                *)

\* gray >= threshold ? 255 : 0, gray being the double of the luminance
ThresholdDataOpaque(data, threshold) ==
    [p \in 1..Len(data) |->
        IF ChannelOf(p) = 3 THEN 255
        ELSE LET i    == PixelOf(p) * 4
                 gray == Luminance(At(data, i), At(data, i + 1), At(data, i + 2))
             IN  IF DblGeqInt(gray, threshold) THEN 255 ELSE 0]

ThresholdData(data, threshold) ==
    [p \in 1..Len(data) |->
        IF ChannelOf(p) = 3 THEN data[p]
        ELSE LET i    == PixelOf(p) * 4
                 gray == Luminance(At(data, i), At(data, i + 1), At(data, i + 2))
             IN  IF DblGeqInt(gray, threshold) THEN 255 ELSE 0]

applyThreshold(h, id, threshold) ==
    Alloc(h, ImageData(ThresholdData(h[id].data, threshold), h[id].width, h[id].height))

SQUARE_ELEMENT == << <<1, 1, 1>>, <<1, 1, 1>>, <<1, 1, 1>> >>

\* the cells (sx, sy) of the structuring element that take part
ElementCells(se) == {c \in (0..2) \X (0..2) : se[c[2] + 1][c[1] + 1] # 0}

\* minVal of applyErosion for the pixel (x, y): a cell outside the image
\* sets it to 0, a cell inside lowers it to the red sample of that cell
ErosionMinSkipOutside(img, x, y) ==
    LET se     == SQUARE_ELEMENT
        inside(c) == /\ x + c[1] - 1 >= 0 /\ x + c[1] - 1 < img.width
                     /\ y + c[2] - 1 >= 0 /\ y + c[2] - 1 < img.height
        red(c) == At(img.data, ((y + c[2] - 1) * img.width + (x + c[1] - 1)) * 4)
        reds   == {255} \cup {red(c) : c \in {d \in ElementCells(se) : inside(d)}}
    IN  CHOOSE m \in reds : \A v \in reds : m <= v

ErosionMin(img, x, y) ==
    LET se     == SQUARE_ELEMENT
        inside(c) == /\ x + c[1] - 1 >= 0 /\ x + c[1] - 1 < img.width
                     /\ y + c[2] - 1 >= 0 /\ y + c[2] - 1 < img.height
        red(c) == At(img.data, ((y + c[2] - 1) * img.width + (x + c[1] - 1)) * 4)
    IN  IF \E c \in ElementCells(se) : ~inside(c) THEN 0
        ELSE CHOOSE m \in {255} \cup {red(c) : c \in ElementCells(se)} :
                 \A c \in ElementCells(se) : m <= red(c)

\* an erosion of the red channel that copies green and blue
applyErosionOfRed(h, id) ==
    LET img == h[id]
        S(x, y, c) ==
            IF c = 0 THEN ErosionMin(img, x, y)
            ELSE At(img.data, (y * img.width + x) * 4 + c)
    IN  Alloc(h, ImageData(Filled(img.width, img.height, S), img.width, img.height))

applyErosion(h, id) ==
    LET img == h[id]
        S(x, y, c) ==
            IF c = 3 THEN At(img.data, (y * img.width + x) * 4 + 3)
            ELSE ErosionMin(img, x, y)
    IN  Alloc(h, ImageData(Filled(img.width, img.height, S), img.width, img.height))

\* maxVal of applyDilation for the pixel (x, y): only the cells inside the
\* image raise it
DilationMaxCross(img, x, y) ==
    LET se     == << <<0, 1, 0>>, <<1, 1, 1>>, <<0, 1, 0>> >>   \* CROSS_ELEMENT
        inside(c) == /\ x + c[1] - 1 >= 0 /\ x + c[1] - 1 < img.width
                     /\ y + c[2] - 1 >= 0 /\ y + c[2] - 1 < img.height
        red(c) == At(img.data, ((y + c[2] - 1) * img.width + (x + c[1] - 1)) * 4)
        reds   == {0} \cup {red(c) : c \in {d \in ElementCells(se) : inside(d)}}
    IN  CHOOSE m \in reds : \A v \in reds : m >= v

DilationMax(img, x, y) ==
    LET se     == SQUARE_ELEMENT
        inside(c) == /\ x + c[1] - 1 >= 0 /\ x + c[1] - 1 < img.width
                     /\ y + c[2] - 1 >= 0 /\ y + c[2] - 1 < img.height
        red(c) == At(img.data, ((y + c[2] - 1) * img.width + (x + c[1] - 1)) * 4)
        reds   == {0} \cup {red(c) : c \in {d \in ElementCells(se) : inside(d)}}
    IN  CHOOSE m \in reds : \A v \in reds : m >= v

applyDilation(h, id) ==
    LET img == h[id]
        S(x, y, c) ==
            IF c = 3 THEN At(img.data, (y * img.width + x) * 4 + 3)
            ELSE DilationMax(img, x, y)
    IN  Alloc(h, ImageData(Filled(img.width, img.height, S), img.width, img.height))

\* the eroded buffer is allocated, then the dilation allocates the result
applyOpening(h, id) ==
    LET eroded == applyErosion(h, id)
    IN  applyDilation(eroded.heap, eroded.ret)

applyClosing(h, id) ==
    LET dilated == applyDilation(h, id)
    IN  applyErosion(dilated.heap, dilated.ret)

-----------------------------------------------------------------------------
(* Sobel operator (edgeDetection).  The sums are taken on the doubles of   *)
(* the luminances; the positive and the negative weights are summed apart  *)
(* and exactly, so a gradient is the pair pos, neg of fixed-point values.  *)

SOBEL_X == << <<-1, 0, 1>>, <<-2, 0, 2>>, <<-1, 0, 1>> >>
SOBEL_Y == << <<-1, -2, -1>>, <<0, 0, 0>>, <<1, 2, 1>> >>

\* the store of Math.min(255, value) into a Uint8ClampedArray
FixToUint8(x) ==
    LET half == LimbBase \div 2
        above == x[3] > half \/ (x[3] = half /\ (x[2] > 0 \/ x[1] > 0))
        tie   == x[3] = half /\ x[2] = 0 /\ x[1] = 0
    IN  IF x[4] >= 255 THEN 255
        ELSE IF above THEN x[4] + 1
        ELSE IF tie /\ x[4] % 2 = 1 THEN x[4] + 1
        ELSE x[4]

\* gray is toGray of the pixel the cell (kx, ky) reads for the position
\* (x, y)
RECURSIVE SignedSum(_, _, _, _, _, _)
SignedSum(img, x, y, kernel, sign, t) ==
    LET ky == t \div 3
        kx == t % 3
        w  == kernel[ky + 1][kx + 1] * sign
    IN  IF t >= 9 THEN <<0, 0, 0, 0>>
        ELSE IF w > 0
             THEN Only({DblNorm(<<gray[1] * w + rest[1], gray[2] * w + rest[2],
                                  gray[3] * w + rest[3], gray[4] * w + rest[4]>>) :
                           gray \in {Luminance(
                                       ClampedSample(img, x + kx - 1, y + ky - 1, 0),
                                       ClampedSample(img, x + kx - 1, y + ky - 1, 1),
                                       ClampedSample(img, x + kx - 1, y + ky - 1, 2))},
                           rest \in {SignedSum(img, x, y, kernel, sign, t + 1)}})
             ELSE SignedSum(img, x, y, kernel, sign, t + 1)

convolve3x3(img, x, y, kernel) ==
    [pos |-> SignedSum(img, x, y, kernel, 1, 0),
     neg |-> SignedSum(img, x, y, kernel, -1, 0)]

\* Math.abs of a gradient
GradAbs(g) ==
    Only({IF d[4] >= 0 THEN d
          ELSE DblNorm(<<g.neg[1] - g.pos[1], g.neg[2] - g.pos[2],
                         g.neg[3] - g.pos[3], g.neg[4] - g.pos[4]>>) :
          d \in {DblNorm(<<g.pos[1] - g.neg[1], g.pos[2] - g.neg[2],
                           g.pos[3] - g.neg[3], g.pos[4] - g.neg[4]>>)}})

\* the store of Math.min(255, Math.sqrt(gx * gx + gy * gy)), the two
\* gradients taken in units of 2^-6: exact when both are integers
MagnitudeToUint8(gx, gy) ==
    LET ax == GradAbs(gx)
        ay == GradAbs(gy)
        ux == ax[4] * 64 + ax[3] \div 65536
        uy == ay[4] * 64 + ay[3] \div 65536
    IN  IF ax[4] >= 256 \/ ay[4] >= 256 THEN 255
        ELSE Min2(255, (Isqrt(4 * (ux * ux + uy * uy)) + 64) \div 128)

SobelImage(h, id, value(_, _, _)) ==
    LET img == h[id]
        S(x, y, c) ==
            IF c = 3 THEN At(img.data, (y * img.width + x) * 4 + 3)
            ELSE value(img, x, y)
    IN  Alloc(h, ImageData(Filled(img.width, img.height, S), img.width, img.height))

applySobelX(h, id) ==
    LET value(img, x, y) == FixToUint8(GradAbs(convolve3x3(img, x, y, SOBEL_X)))
    IN  SobelImage(h, id, value)

applySobelY(h, id) ==
    LET value(img, x, y) == FixToUint8(GradAbs(convolve3x3(img, x, y, SOBEL_Y)))
    IN  SobelImage(h, id, value)

applySobelMagnitude(h, id) ==
    LET value(img, x, y) == MagnitudeToUint8(convolve3x3(img, x, y, SOBEL_X),
                                             convolve3x3(img, x, y, SOBEL_Y))
    IN  SobelImage(h, id, value)

-----------------------------------------------------------------------------
(* Colour filters (colorFilters).                                          *)

PixelMap(h, id, f(_, _, _, _)) ==
    LET img == h[id]
        data == [p \in 1..Len(img.data) |->
                    LET i == PixelOf(p) * 4
                    IN  IF ChannelOf(p) = 3 THEN img.data[p]
                        ELSE f(At(img.data, i), At(img.data, i + 1),
                               At(img.data, i + 2), ChannelOf(p))]
    IN  Alloc(h, ImageData(data, img.width, img.height))

applyGrayscale(h, id) ==
    LET f(r, g, b, c) == DblMathRound(Luminance(r, g, b))
    IN  PixelMap(h, id, f)

\* the doubles of the literals of the sepia matrix: the rows are those of
\* 0.393 0.769 0.189, of 0.349 0.686 0.168 and of 0.272 0.534 0.131
applySepia(h, id) ==
    LET weights ==
        << << <<2048000, 1979711, 1648361, 0>>,
              <<3792896, 3254779, 3225419, 0>>,
              <<2617344, 1912602, 792723, 0>> >>,
           << <<770048, 402653, 1463812, 0>>,
              <<1581056, 2281701, 2877292, 0>>,
              <<3725312, 301989, 704643, 0>> >>,
           << <<638976, 2885681, 1140850, 0>>,
              <<606208, 1409286, 2239758, 0>>,
              <<2080768, 3456106, 549453, 0>> >> >>
        f(r, g, b, c) ==
            Min2(255, DblMathRound(DblWeighted(weights[c + 1], r, g, b)))
    IN  PixelMap(h, id, f)

\* new red = old blue, new green = old red, new blue = old green
applySwapChannels(h, id) ==
    LET f(r, g, b, c) == CASE c = 0 -> b [] c = 1 -> r [] c = 2 -> g
    IN  PixelMap(h, id, f)

-----------------------------------------------------------------------------
(* FFT (fft).  A Complex is held exactly as an element of Z[w], w being    *)
(* the root of unity e^(-2 pi i / RootOrder): the sequence c stands for    *)
(* c[1] + c[2] w + ... + c[Half] w^(Half - 1), and w^Half = -1.  Every     *)
(* twiddle factor of a transform of a length dividing RootOrder is a       *)
(* power of w.                                                             *)

RECURSIVE CeilLog2(_)
CeilLog2(n) == IF n <= 1 THEN 0 ELSE 1 + CeilLog2((n + 1) \div 2)

\* Math.pow(2, Math.ceil(Math.log2(n))), n >= 1
nextPowerOf2Unpadded(n) == n

nextPowerOf2(n) == Pow2(CeilLog2(n))

RootOrder == Max2(2, nextPowerOf2(MaxFFTDim))
Half == RootOrder \div 2

\* complex(re) for an integer re
complex(re) == Array([j \in 1..Half |-> IF j = 1 THEN re ELSE 0])

add(a, b) == Array([j \in 1..Half |-> a[j] + b[j]])

subtract(a, b) == Array([j \in 1..Half |-> a[j] - b[j]])

\* the product of two elements: w^i * w^j = w^(i + j), and w^Half = -1
multiply(a, b) ==
    Array([t \in 1..Half |->
        SumSeq([q \in 1..(Half * Half) |->
            LET i == (q - 1) \div Half
                j == (q - 1) % Half
            IN  IF (i + j) % Half # t - 1 THEN 0
                ELSE IF i + j >= Half THEN -(a[i + 1] * b[j + 1])
                ELSE a[i + 1] * b[j + 1]])])

\* the twiddle factor of the inverse transform, e^(+2 pi i k / n)
TwiddleInverse(k, n) ==
    LET m == (RootOrder - (k * RootOrder) \div n) % RootOrder
    IN  Array([j \in 1..Half |->
            IF j - 1 = m % Half THEN (IF m >= Half THEN -1 ELSE 1) ELSE 0])

\* complex(Math.cos(angle), Math.sin(angle)) for angle = -2 pi k / n,
\* 0 <= k < n, n dividing RootOrder: the power k * RootOrder / n of w
Twiddle(k, n) ==
    LET m == (k * RootOrder) \div n
    IN  Array([j \in 1..Half |->
            IF j - 1 = m % Half THEN (IF m >= Half THEN -1 ELSE 1) ELSE 0])

RECURSIVE BitAnd(_, _)
BitAnd(a, b) ==
    IF a = 0 \/ b = 0 THEN 0
    ELSE (a % 2) * (b % 2) + 2 * BitAnd(a \div 2, b \div 2)

\* The result of a call of fft1D: whether it threw, the value returned and
\* the lengths of the arrays it and its recursive calls received.
\* Butterfly is the loop over k < n / 2 on the transforms of the halves.
Butterfly(n, evenFFT, oddFFT) ==
    LET t(k) == multiply(Twiddle(k, n), oddFFT.value[k + 1])
    IN  IF evenFFT.thrown
        THEN [thrown |-> TRUE, value |-> <<>>, lens |-> {n} \cup evenFFT.lens]
        ELSE IF oddFFT.thrown
        THEN [thrown |-> TRUE, value |-> <<>>,
              lens |-> {n} \cup evenFFT.lens \cup oddFFT.lens]
        ELSE [thrown |-> FALSE,
              value  |-> Array([p \in 1..n |->
                            IF p - 1 < n \div 2
                            THEN add(evenFFT.value[p], t(p - 1))
                            ELSE subtract(evenFFT.value[p - n \div 2],
                                          t(p - 1 - n \div 2))]),
              lens   |-> {n} \cup evenFFT.lens \cup oddFFT.lens]

RECURSIVE fft1D(_)
fft1D(data) ==
    Only({IF Len(d) <= 1 THEN [thrown |-> FALSE, value |-> d, lens |-> {Len(d)}]
          ELSE IF BitAnd(Len(d), Len(d) - 1) # 0
          THEN [thrown |-> TRUE, value |-> <<>>, lens |-> {Len(d)}]
          ELSE Only({Butterfly(Len(d), evenFFT, oddFFT) :
                       evenFFT \in {fft1D([i \in 1..(Len(d) \div 2) |-> d[2 * i - 1]])},
                       oddFFT  \in {fft1D([i \in 1..(Len(d) \div 2) |-> d[2 * i]])}}) :
          d \in {Array(data)}})

\* imageToGrayscale: matrix[y][x] is the luminance of the pixel.  The
\* transform below is exact for the images whose luminances are integers.
imageToGrayscale(img) ==
    Array([y \in 1..img.height |-> Array([x \in 1..img.width |->
        LET idx == ((y - 1) * img.width + (x - 1)) * 4
        IN  Luminance(At(img.data, idx), At(img.data, idx + 1),
                      At(img.data, idx + 2))[4]])])

\* fft2D: pad to powers of two, transform every row, then every column.
\* Columns is the second loop, on the rows transformed by the first.
Columns(paddedRows, paddedCols, rowFFT) ==
    LET rowThrown == \E i \in 1..paddedRows : rowFFT[i].thrown
        rowLens == UNION {rowFFT[i].lens : i \in 1..paddedRows}
    IN  IF rowThrown THEN [thrown |-> TRUE, value |-> <<>>, lens |-> rowLens]
        ELSE Only({
               IF \E j \in 1..paddedCols : colFFT[j].thrown
               THEN [thrown |-> TRUE, value |-> <<>>,
                     lens |-> rowLens \cup UNION {colFFT[j].lens : j \in 1..paddedCols}]
               ELSE [thrown |-> FALSE,
                     value  |-> Array([i \in 1..paddedRows |->
                                   Array([j \in 1..paddedCols |-> colFFT[j].value[i]])]),
                     lens   |-> rowLens \cup UNION {colFFT[j].lens : j \in 1..paddedCols}] :
               colFFT \in {Array([j \in 1..paddedCols |->
                               fft1D([i \in 1..paddedRows |-> rowFFT[i].value[j]])])}})

fft2D(matrix) ==
    LET rows == Len(matrix)
        cols == Len(matrix[1])
        paddedRows == nextPowerOf2(rows)
        paddedCols == nextPowerOf2(cols)
        complexRow(i) ==
            [j \in 1..paddedCols |->
                IF i <= rows /\ j <= cols THEN complex(matrix[i][j]) ELSE complex(0)]
    IN  Only({Columns(paddedRows, paddedCols, rowFFT) :
                 rowFFT \in {Array([i \in 1..paddedRows |-> fft1D(complexRow(i))])}})

\* the index (from 0) of the coefficient fftShift copies to index i
ShiftSourceNoWrap(i, size) == Min2(size - 1, i + size \div 2)

ShiftSource(i, size) == (i + size \div 2) % size

fftShift(spec) ==
    LET rows == Len(spec)
        cols == Len(spec[1])
    IN  Array([i \in 1..rows |-> Array([j \in 1..cols |->
            spec[ShiftSource(i - 1, rows) + 1][ShiftSource(j - 1, cols) + 1]])])

\* cosine of j eighths of a turn, in units of 10^-4; the sine is the
\* cosine of j + 6 eighths
Cos8(j) == <<10000, 7071, 0, -7071, -10000, -7071, 0, 7071>>[(j % 8) + 1]

\* Math.floor of the magnitude of a Complex.  w^j has the angle
\* -2 pi j / RootOrder; exact for RootOrder <= 4, where every cosine is
\* 0, 1 or -1 and the magnitudes compared are those of Gaussian integers.
\* Math.log(1 + magnitude) up to a constant factor, in units of 2^-8: the
\* binary logarithm of 1 + floor(magnitude), its fraction interpolated
\* linearly.  It is 0 for magnitude 0.
LogMagnitude(c) ==
    LET re == SumSeq([j \in 1..Half |-> c[j] * Cos8(((j - 1) * 8) \div RootOrder)]) \div 10000
        im == SumSeq([j \in 1..Half |-> -(c[j] * Cos8(((j - 1) * 8) \div RootOrder + 6))]) \div 10000
        u == 1 + Isqrt(re * re + im * im)
        e == BitLength(u) - 1
    IN  256 * e + (256 * (u - Pow2(e))) \div Pow2(e)

\* spectrumToImageData: log-scaled magnitudes, normalised by the largest
\* and cropped to the original size around the centre.  Normalized is the
\* second loop, on the magnitudes and the largest of them.
Normalized(magnitudes, maxMag, originalWidth, originalHeight) ==
    LET rows == Len(magnitudes)
        cols == Len(magnitudes[1])
        offsetY == (rows - originalHeight) \div 2
        offsetX == (cols - originalWidth) \div 2
        S(x, y, c) ==
            LET srcY == y + offsetY
                srcX == x + offsetX
            IN  IF c = 3 THEN 255
                ELSE IF srcY >= 0 /\ srcY < rows /\ srcX >= 0 /\ srcX < cols /\ maxMag > 0
                THEN ToUint8Clamped(magnitudes[srcY + 1][srcX + 1] * 255, maxMag)
                ELSE 0
    IN  ImageData(Filled(originalWidth, originalHeight, S), originalWidth, originalHeight)

spectrumToImageData(h, spec, originalWidth, originalHeight) ==
    Only({Only({Alloc(h, Normalized(magnitudes, maxMag, originalWidth, originalHeight)) :
                  maxMag \in {CHOOSE m \in UNION {{magnitudes[i][j] : j \in 1..Len(magnitudes[i])} :
                                                   i \in 1..Len(magnitudes)} \cup {0} :
                                 \A i \in 1..Len(magnitudes) : \A j \in 1..Len(magnitudes[i]) :
                                     m >= magnitudes[i][j]}}) :
          magnitudes \in {Array([i \in 1..Len(spec) |->
                              Array([j \in 1..Len(spec[1]) |-> LogMagnitude(spec[i][j])])])}})

\* applyFFTSpectrum: the heap and buffer returned, or thrown; with them the
\* spectrum, the shifted spectrum and the lengths fft1D received
Shifted(h, img, res) ==
    IF res.thrown
    THEN [thrown |-> TRUE, heap |-> h, ret |-> 0, lens |-> res.lens,
          spectrum |-> <<>>, shifted |-> <<>>]
    ELSE Only({Only({[thrown |-> FALSE, heap |-> out.heap, ret |-> out.ret,
                      lens |-> res.lens, spectrum |-> res.value, shifted |-> sh] :
                       out \in {spectrumToImageData(h, sh, img.width, img.height)}}) :
               sh \in {fftShift(res.value)}})

applyFFTSpectrum(h, id) ==
    Only({Shifted(h, h[id], res) :
             res \in {Only({fft2D(grayscale) : grayscale \in {imageToGrayscale(h[id])}})}})

-----------------------------------------------------------------------------
(* Custom formulas (customFilters).  A formula is the sequence of its      *)
(* characters.  evaluateFormula compiles "return (<formula>);" with new    *)
(* Function and calls it.  The model reads the part of JavaScript's        *)
(* expressions made of decimal numbers, names, calls, parentheses, the     *)
(* signs and + - * / % **, and computes in exact fractions with Infinity   *)
(* and NaN.  A value is [k, n, d]: k is "num" (the fraction n / d), "inf"  *)
(* (of sign n), "nan", "fn" (the n-th function passed to the compiled      *)
(* function) or "other" (a value this arithmetic does not compute).  The   *)
(* result of reading an expression is [st, v, pos]: st is "ok", "error"    *)
(* (JavaScript throws a SyntaxError, ReferenceError or TypeError) or       *)
(* "other" (the text leaves the part of the language read here), v the     *)
(* value and pos the position after the expression.  Names other than the  *)
(* parameters, Infinity and NaN are taken to be unbound.                   *)

RECURSIVE Gcd(_, _)
Gcd(a, b) == IF b = 0 THEN a ELSE Gcd(b, a % b)

RECURSIVE IntPow(_, _)
IntPow(x, k) == IF k = 0 THEN 1 ELSE x * IntPow(x, k - 1)

Val(k, n, d) ==
    IF k = "num"
    THEN Only({[k |-> "num", n |-> n \div q, d |-> d \div q] : q \in {Gcd(Abs(n), d)}})
    ELSE [k |-> k, n |-> n, d |-> 1]

Res(st, v, pos) == [st |-> st, v |-> v, pos |-> pos]

\* a binary operator of JavaScript on numbers; a function operand converts
\* to NaN (to a string under +, which Math.round converts to NaN)
Arith(op, a, b) ==
    LET sgn(n) == IF n < 0 THEN -1 ELSE 1
        nan    == Val("nan", 0, 1)
        other  == Val("other", 0, 1)
    IN
    IF a.k = "other" \/ b.k = "other" THEN other
    ELSE IF op = "**" /\ b.k = "num" /\ b.n = 0 THEN Val("num", 1, 1)
    ELSE IF ~({a.k, b.k} \subseteq {"num", "inf"}) THEN nan
    ELSE IF a.k = "inf" \/ b.k = "inf" THEN
        CASE op = "+" -> IF a.k = "num" THEN b
                         ELSE IF b.k = "num" \/ a.n = b.n THEN a ELSE nan
          [] op = "-" -> IF a.k = "num" THEN Val("inf", -b.n, 1)
                         ELSE IF b.k = "num" \/ a.n # b.n THEN a ELSE nan
          [] op = "*" -> IF a.n = 0 \/ b.n = 0 THEN nan
                         ELSE Val("inf", sgn(a.n) * sgn(b.n), 1)
          [] op = "/" -> IF a.k = "num" THEN Val("num", 0, 1)
                         ELSE IF b.k = "inf" THEN nan
                         ELSE Val("inf", a.n * sgn(b.n), 1)
          [] op = "%" -> IF a.k = "inf" THEN nan ELSE a
          [] OTHER    -> other
    ELSE
        CASE op = "+" -> Val("num", a.n * b.d + b.n * a.d, a.d * b.d)
          [] op = "-" -> Val("num", a.n * b.d - b.n * a.d, a.d * b.d)
          [] op = "*" -> Val("num", a.n * b.n, a.d * b.d)
          [] op = "/" -> IF b.n = 0
                         THEN IF a.n = 0 THEN nan ELSE Val("inf", sgn(a.n), 1)
                         ELSE Val("num", a.n * b.d * sgn(b.n), a.d * Abs(b.n))
          [] op = "%" -> IF b.n = 0 THEN nan
                         ELSE Val("num", sgn(a.n) * ((Abs(a.n) * b.d) % (Abs(b.n) * a.d)),
                                  a.d * b.d)
          [] op = "**" -> IF b.d # 1 THEN other
                          ELSE IF b.n > 0 THEN Val("num", IntPow(a.n, b.n), IntPow(a.d, b.n))
                          ELSE IF a.n = 0 THEN Val("inf", 1, 1)
                          ELSE Val("num", IntPow(sgn(a.n), -b.n) * IntPow(a.d, -b.n),
                                   IntPow(Abs(a.n), -b.n))

\* the functions bound by evaluateFormula, in the order of its parameters
FormulaFunctions ==
    << <<"s", "i", "n">>, <<"c", "o", "s">>, <<"t", "a", "n">>, <<"s", "q", "r", "t">>,
       <<"a", "b", "s">>, <<"f", "l", "o", "o", "r">>, <<"c", "e", "i", "l">>,
       <<"r", "o", "u", "n", "d">>, <<"m", "i", "n">>, <<"m", "a", "x">>,
       <<"l", "o", "g">> >>

\* Math.sin, ..., Math.log applied to the arguments args.  The values of
\* sin, cos, tan, sqrt and log that are not fractions are "other".
FnApply(f, args) ==
    LET nan   == Val("nan", 0, 1)
        other == Val("other", 0, 1)
        x     == args[1]
        less(a, b) ==
            IF a.k = "inf" THEN a.n < 0 /\ (b.k = "num" \/ b.n > 0)
            ELSE IF b.k = "inf" THEN b.n > 0
            ELSE a.n * b.d < b.n * a.d
        all   == 1..Len(args)
    IN
    IF \E i \in all : args[i].k = "other" THEN other
    ELSE IF f.n \in {9, 10} THEN
        IF args = <<>> THEN Val("inf", IF f.n = 9 THEN 1 ELSE -1, 1)
        ELSE IF \E i \in all : args[i].k \notin {"num", "inf"} THEN nan
        ELSE IF f.n = 9
        THEN args[CHOOSE i \in all : \A j \in all : ~less(args[j], args[i])]
        ELSE args[CHOOSE i \in all : \A j \in all : ~less(args[i], args[j])]
    ELSE IF args = <<>> THEN nan
    ELSE IF x.k \notin {"num", "inf"} THEN nan
    ELSE IF x.k = "inf" THEN
        CASE f.n = 5         -> Val("inf", 1, 1)
          [] f.n \in {6, 7, 8} -> x
          [] f.n \in {4, 11}   -> IF x.n > 0 THEN x ELSE nan
          [] OTHER           -> nan
    ELSE
        CASE f.n = 5  -> Val("num", Abs(x.n), x.d)
          [] f.n = 6  -> Val("num", x.n \div x.d, 1)
          [] f.n = 7  -> Val("num", -((-x.n) \div x.d), 1)
          [] f.n = 8  -> Val("num", MathRound(x.n, x.d), 1)
          [] f.n = 4  -> IF x.n < 0 THEN nan
                         ELSE IF Isqrt(x.n) * Isqrt(x.n) = x.n /\ Isqrt(x.d) * Isqrt(x.d) = x.d
                         THEN Val("num", Isqrt(x.n), Isqrt(x.d))
                         ELSE other
          [] f.n = 2  -> IF x.n = 0 THEN Val("num", 1, 1) ELSE other
          [] f.n = 11 -> IF x.n < 0 THEN nan
                         ELSE IF x.n = 0 THEN Val("inf", -1, 1)
                         ELSE IF x.n = x.d THEN Val("num", 0, 1)
                         ELSE other
          [] OTHER    -> IF x.n = 0 THEN x ELSE other

\* String.prototype.replace with a global pattern that matches the text pat
RECURSIVE ReplaceAll(_, _, _)
ReplaceAll(s, pat, rep) ==
    IF Len(s) < Len(pat) THEN s
    ELSE IF SubSeq(s, 1, Len(pat)) = pat
    THEN rep \o ReplaceAll(SubSeq(s, Len(pat) + 1, Len(s)), pat, rep)
    ELSE <<s[1]>> \o ReplaceAll(Tail(s), pat, rep)

Digits == <<"0", "1", "2", "3", "4", "5", "6", "7", "8", "9">>

Letters ==
    {"a", "b", "c", "d", "e", "f", "g", "h", "i", "j", "k", "l", "m", "n", "o", "p", "q",
     "r", "s", "t", "u", "v", "w", "x", "y", "z", "A", "B", "C", "D", "E", "F", "G", "H",
     "I", "J", "K", "L", "M", "N", "O", "P", "Q", "R", "S", "T", "U", "V", "W", "X", "Y",
     "Z", "_", "$"}

\* the character at position p, "" past the end
CharAt(s, p) == IF p <= Len(s) THEN s[p] ELSE ""

RECURSIVE SkipSpaces(_, _)
SkipSpaces(s, p) == IF CharAt(s, p) = " " THEN SkipSpaces(s, p + 1) ELSE p

\* a decimal literal from position p: n / d is the number read so far and
\* frac tells that the point has been read.  Fraction digits after the
\* first MaxFractionDigits are dropped.
RECURSIVE ScanNumber(_, _, _, _, _)
ScanNumber(s, p, n, d, frac) ==
    IF \E i \in 1..10 : Digits[i] = CharAt(s, p)
    THEN LET v == (CHOOSE i \in 1..10 : Digits[i] = s[p]) - 1
         IN  IF ~frac THEN ScanNumber(s, p + 1, 10 * n + v, 1, FALSE)
             ELSE IF d < IntPow(10, MaxFractionDigits)
             THEN ScanNumber(s, p + 1, 10 * n + v, 10 * d, TRUE)
             ELSE ScanNumber(s, p + 1, n, d, TRUE)
    ELSE IF CharAt(s, p) = "." /\ ~frac THEN ScanNumber(s, p + 1, n, d, TRUE)
    ELSE Res("ok", Val("num", n, d), p)

\* the position after the name that starts at p
RECURSIVE ScanIdent(_, _)
ScanIdent(s, p) ==
    IF CharAt(s, p) \in Letters \/ \E i \in 1..10 : Digits[i] = CharAt(s, p)
    THEN ScanIdent(s, p + 1)
    ELSE p

\* the value bound to a name in the compiled function
Lookup(name, context) ==
    CASE name = <<"r">> -> Res("ok", Val("num", context.r, 1), 0)
      [] name = <<"g">> -> Res("ok", Val("num", context.g, 1), 0)
      [] name = <<"b">> -> Res("ok", Val("num", context.b, 1), 0)
      [] name = <<"x">> -> Res("ok", Val("num", context.x, 1), 0)
      [] name = <<"y">> -> Res("ok", Val("num", context.y, 1), 0)
      [] name = <<"w">> -> Res("ok", Val("num", context.w, 1), 0)
      [] name = <<"h">> -> Res("ok", Val("num", context.h, 1), 0)
      [] \E i \in 1..Len(FormulaFunctions) : FormulaFunctions[i] = name ->
            Res("ok", Val("fn", CHOOSE i \in 1..Len(FormulaFunctions) :
                                    FormulaFunctions[i] = name, 1), 0)
      [] name = <<"I", "n", "f", "i", "n", "i", "t", "y">> -> Res("ok", Val("inf", 1, 1), 0)
      [] name = <<"N", "a", "N">> -> Res("ok", Val("nan", 0, 1), 0)
      [] OTHER -> Res("error", Val("nan", 0, 1), 0)

\* after an expression, the character ch (")", or "" for the end of the
\* text) is required: a name, a number, a closing parenthesis or the end
\* in its place is a SyntaxError
Expect(s, res, ch) ==
    IF res.st # "ok" THEN res
    ELSE Only({ IF CharAt(s, q) = ch THEN Res("ok", res.v, q + 1)
                ELSE IF CharAt(s, q) \in Letters \cup {"", ")"}
                        \/ \E i \in 1..10 : Digits[i] = CharAt(s, q)
                THEN Res("error", res.v, q)
                ELSE Res("other", res.v, q) :
                q \in {SkipSpaces(s, res.pos)} })

RECURSIVE ParseExpr(_, _, _)
RECURSIVE ExprRest(_, _, _)
RECURSIVE TermRest(_, _, _)
RECURSIVE ParseUnary(_, _, _, _)
RECURSIVE ParsePrimary(_, _, _)
RECURSIVE Postfix(_, _, _)
RECURSIVE ParseArgs(_, _, _, _)

\* the arguments of a call, from the position after "(": acc holds those
\* read so far
ParseArgs(s, p, context, acc) ==
    Only({ IF CharAt(s, q) = ")" THEN Res("ok", acc, q + 1)
           ELSE Only({ IF e.st # "ok" THEN e
                       ELSE Only({ IF CharAt(s, o) = ","
                                   THEN ParseArgs(s, o + 1, context, Append(acc, e.v))
                                   ELSE Only({ IF close.st = "ok"
                                               THEN Res("ok", Append(acc, e.v), close.pos)
                                               ELSE close :
                                               close \in {Expect(s, e, ")")} }) :
                                   o \in {SkipSpaces(s, e.pos)} }) :
                       e \in {ParseExpr(s, q, context)} }) :
           q \in {SkipSpaces(s, p)} })

\* the calls that follow an operand: calling a number is a TypeError
Postfix(s, res, context) ==
    IF res.st # "ok" THEN res
    ELSE Only({ IF CharAt(s, q) = "("
                THEN Only({ IF args.st # "ok" THEN args
                            ELSE IF res.v.k = "fn"
                            THEN Postfix(s, Res("ok", FnApply(res.v, args.v), args.pos),
                                         context)
                            ELSE IF res.v.k = "other" THEN Res("other", res.v, q)
                            ELSE Res("error", res.v, q) :
                            args \in {ParseArgs(s, q + 1, context, <<>>)} })
                ELSE IF CharAt(s, q) = "." THEN Res("other", res.v, q)
                ELSE res :
                q \in {SkipSpaces(s, res.pos)} })

\* a number, a name or a parenthesised expression, with its calls
ParsePrimary(s, p, context) ==
    Only({ LET c == CharAt(s, q)
           IN  IF \E i \in 1..10 : Digits[i] = c
               THEN IF c = "0" /\ \E i \in 1..10 : Digits[i] = CharAt(s, q + 1)
                    THEN Res("other", Val("other", 0, 1), q)
                    ELSE Only({ IF CharAt(s, num.pos) \in Letters
                                THEN Res("other", num.v, q)
                                ELSE Postfix(s, num, context) :
                                num \in {ScanNumber(s, q, 0, 1, FALSE)} })
               ELSE IF c \in Letters
               THEN Only({ Only({ Postfix(s, Res(v.st, v.v, e), context) :
                                  v \in {Lookup(SubSeq(s, q, e - 1), context)} }) :
                           e \in {ScanIdent(s, q)} })
               ELSE IF c = "("
               THEN Only({ Postfix(s, inner, context) :
                           inner \in {Only({ Expect(s, e, ")") :
                                             e \in {ParseExpr(s, q + 1, context)} })} })
               ELSE IF c \in {"", ")", ",", "*", "%"}
               THEN Res("error", Val("nan", 0, 1), q)
               ELSE Res("other", Val("other", 0, 1), q) :
           q \in {SkipSpaces(s, p)} })

\* signs and **: a sign applied to the base of ** is a SyntaxError, and ++
\* and -- are not read
ParseUnary(s, p, context, signed) ==
    Only({ LET c == CharAt(s, q)
           IN  IF c \in {"+", "-"}
               THEN IF CharAt(s, q + 1) = c THEN Res("other", Val("other", 0, 1), q)
                    ELSE Only({ IF x.st # "ok" THEN x
                                ELSE Res("ok",
                                         Arith("*", Val("num", IF c = "-" THEN -1 ELSE 1, 1),
                                               x.v),
                                         x.pos) :
                                x \in {ParseUnary(s, q + 1, context, TRUE)} })
               ELSE Only({ IF base.st # "ok" THEN base
                           ELSE Only({ IF CharAt(s, o) = "*" /\ CharAt(s, o + 1) = "*"
                                       THEN IF signed THEN Res("error", base.v, o)
                                            ELSE Only({ IF e.st # "ok" THEN e
                                                        ELSE Res("ok",
                                                                 Arith("**", base.v, e.v),
                                                                 e.pos) :
                                                        e \in {ParseUnary(s, o + 2, context,
                                                                          FALSE)} })
                                       ELSE base :
                                       o \in {SkipSpaces(s, base.pos)} }) :
                           base \in {ParsePrimary(s, q, context)} }) :
           q \in {SkipSpaces(s, p)} })

\* the operators *, / and % that follow the operand left; // and /* start
\* a comment, which is not read
TermRest(s, left, context) ==
    IF left.st # "ok" THEN left
    ELSE Only({ LET c == CharAt(s, q)
                IN  IF c = "/" /\ CharAt(s, q + 1) \in {"/", "*"}
                    THEN Res("other", left.v, q)
                    ELSE IF c \in {"*", "/", "%"}
                    THEN Only({ IF right.st # "ok" THEN right
                                ELSE Only({ TermRest(s, acc, context) :
                                            acc \in {Res("ok", Arith(c, left.v, right.v),
                                                         right.pos)} }) :
                                right \in {ParseUnary(s, q + 1, context, FALSE)} })
                    ELSE left :
                q \in {SkipSpaces(s, left.pos)} })

\* the operators + and - that follow the operand left
ExprRest(s, left, context) ==
    IF left.st # "ok" THEN left
    ELSE Only({ LET c == CharAt(s, q)
                IN  IF c \in {"+", "-"} /\ CharAt(s, q + 1) = c
                    THEN Res("other", left.v, q)
                    ELSE IF c \in {"+", "-"}
                    THEN Only({ IF right.st # "ok" THEN right
                                ELSE Only({ ExprRest(s, acc, context) :
                                            acc \in {Res("ok", Arith(c, left.v, right.v),
                                                         right.pos)} }) :
                                right \in {Only({ TermRest(s, u, context) :
                                                  u \in {ParseUnary(s, q + 1, context,
                                                                    FALSE)} })} })
                    ELSE left :
                q \in {SkipSpaces(s, left.pos)} })

ParseExpr(s, p, context) ==
    Only({ ExprRest(s, term, context) :
           term \in {Only({ TermRest(s, u, context) :
                            u \in {ParseUnary(s, p, context, FALSE)} })} })

\* the body of the try block up to the call of the compiled function: the
\* result of reading and evaluating "(" + safeFormula + ")" to the end of
\* the text.  MathPI and MathE are String(Math.PI) and String(Math.E).
RunFormula(formula, context) ==
    LET MathPI == <<"3", ".", "1", "4", "1", "5", "9", "2", "6", "5", "3", "5", "8", "9",
                    "7", "9", "3">>
        MathE  == <<"2", ".", "7", "1", "8", "2", "8", "1", "8", "2", "8", "4", "5", "9",
                    "0", "4", "5">>
    IN
    Only({ Only({ Expect(body, e, "") : e \in {ParseExpr(body, 1, context)} }) :
           body \in {<<"(">>
                     \o ReplaceAll(ReplaceAll(ReplaceAll(formula, <<"^">>, <<"*", "*">>),
                                              <<"P", "I">>, MathPI),
                                   <<"E">>, MathE)
                     \o <<")">>} })

\* Math.max(0, Math.min(255, Math.round(result))): NaN for NaN and for a
\* function
ClampResult(v) ==
    CASE v.k = "num" -> Val("num", Max2(0, Min2(255, MathRound(v.n, v.d))), 1)
      [] v.k = "inf" -> Val("num", IF v.n > 0 THEN 255 ELSE 0, 1)
      [] v.k \in {"nan", "fn"} -> Val("nan", 0, 1)

evaluateFormulaZeroFallback(formula, context) ==
    Only({ IF res.st = "error" THEN Val("num", 0, 1)
           ELSE IF res.st = "ok" THEN ClampResult(res.v)
           ELSE Only({}) :
           res \in {RunFormula(formula, context)} })

\* evaluateFormula: the number returned, NaN included; context.r when the
\* try block throws
evaluateFormula(formula, context) ==
    Only({ IF res.st = "error" THEN Val("num", context.r, 1)
           ELSE IF res.st = "ok" THEN ClampResult(res.v)
           ELSE Only({}) :
           res \in {RunFormula(formula, context)} })

\* applyCustomFormula: a Uint8ClampedArray stores NaN as 0
applyCustomFormula(h, id, formula) ==
    LET img == h[id]
        idx(x, y) == (y * img.width + x) * 4
        context(x, y) ==
            [r |-> At(img.data, idx(x, y)), g |-> At(img.data, idx(x, y) + 1),
             b |-> At(img.data, idx(x, y) + 2), x |-> x, y |-> y,
             w |-> img.width, h |-> img.height]
        store(v) == IF v.k = "nan" THEN 0 ELSE v.n
        \* the store of the channel c: formula.replace(/r/g, name) is evaluated
        \* with r bound to the sample of that channel
        S(x, y, c) ==
            IF c = 3 THEN At(img.data, idx(x, y) + 3)
            ELSE LET name == <<"r", "g", "b">>[c + 1]
                     sample == At(img.data, idx(x, y) + c)
                 IN  store(evaluateFormula(ReplaceAll(formula, <<"r">>, <<name>>),
                                           [context(x, y) EXCEPT !.r = sample]))
    IN  Alloc(h, ImageData(Filled(img.width, img.height, S), img.width, img.height))

-----------------------------------------------------------------------------
(* The inputs: images and kernels.                                         *)

\* the buffer of the pixels px[1], ..., px[width * height], each <<r, g, b, a>>
FromPixels(px, width, height) ==
    ImageData([p \in 1..(4 * width * height) |-> px[PixelOf(p) + 1][ChannelOf(p) + 1]],
              width, height)

\* the subsets of S of at most k elements, and the images of up to
\* maxW x maxH pixels in which every pixel is bg except at most maxSpots
\* pixels, which are fg; bg and fg are distinct pixels of px
RECURSIVE SmallSubsets(_, _)
SmallSubsets(S, k) ==
    IF k = 0 THEN {{}}
    ELSE {t \cup u : t \in SmallSubsets(S, k - 1), u \in {{}} \cup {{x} : x \in S}}

SpotImages(maxW, maxH, px, maxSpots) ==
    UNION {
      { FromPixels([k \in 1..(w * ht) |-> IF k \in on THEN pair[2] ELSE pair[1]], w, ht) :
          on \in SmallSubsets(1..(w * ht), maxSpots),
          pair \in {q \in px \X px : q[1] # q[2]} } :
      w \in 1..maxW, ht \in 1..maxH }

\* the presets of customFilters
PRESET_KERNELS ==
    [identity   |-> Kernel(<< <<0, 0, 0>>, <<0, 1, 0>>, <<0, 0, 0>> >>, 1),
     sharpen    |-> Kernel(<< <<0, -1, 0>>, <<-1, 5, -1>>, <<0, -1, 0>> >>, 1),
     edgeDetect |-> Kernel(<< <<-1, -1, -1>>, <<-1, 8, -1>>, <<-1, -1, -1>> >>, 1),
     emboss     |-> Kernel(<< <<-2, -1, 0>>, <<-1, 1, 1>>, <<0, 1, 2>> >>, 1),
     blur       |-> Kernel(<< <<1, 1, 1>>, <<1, 1, 1>>, <<1, 1, 1>> >>, 9)]

-----------------------------------------------------------------------------
(* The caller.  heap[1] is the image the caller built; call describes the  *)
(* engine call made (operation, argument, the buffer passed, the buffer    *)
(* returned); err is the message of the error thrown, if any.  fftLens,    *)
(* spectrum and shifted hold the locals of applyFFTSpectrum.               *)

\* no ImageData (null)
NoImage == [data |-> <<>>, width |-> 0, height |-> 0]

\* gamma is kept in halves (2 is gamma 1.0), the constants and sigma are 1,
\* customFormula is the text "255 - r"
DEFAULT_FILTER_PARAMS ==
    [threshold |-> 128,
     gamma |-> 2, gammaConstant |-> 1, logConstant |-> 1, quantizationLevels |-> 256,
     samplingFactor |-> 1, kernelSize |-> 3, gaussianSigma |-> 1,
     customFormula |-> <<"2", "5", "5", " ", "-", " ", "r">>,
     customKernel |-> Kernel(<< <<0, -1, 0>>, <<-1, 5, -1>>, <<0, -1, 0>> >>, 1),
     customKernelSize |-> 3]

\* an engine call leaves the App alone
EngineOnly == UNCHANGED <<workers, history, currentIndex, appVars, steps, hookVars>>

\* no engine call was made, and the App component and its hooks are as
\* after the first commit, with the history h and the current index i.  The
\* state and the refs have the initial values of useState and useRef; the
\* effect that initializes the worker has left the worker ref, and the
\* worker's "ready" message is in flight when the worker was created.
Idle(h, i, ref, ready, inFlight) ==
    /\ call = [op |-> "none", arg |-> <<>>, src |-> 0, dst |-> 0]
    /\ err = "none"
    /\ fftLens = {}
    /\ spectrum = <<>>
    /\ shifted = <<>>
    /\ workers = <<>>
    /\ history = h
    /\ currentIndex = i
    /\ activeFilter = "none"
    /\ filterParams = DEFAULT_FILTER_PARAMS
    /\ originalImage = NoImage
    /\ processedImage = NoImage
    /\ isProcessing = FALSE
    /\ before = <<>>
    /\ steps = 0
    /\ mounted = TRUE
    /\ enabled = TRUE
    /\ workerRef = ref
    /\ requestIdRef = 0
    /\ pendingRequestsRef = {}
    /\ isReady = ready
    /\ promises = <<>>
    /\ toWorker = <<>>
    /\ toMain = inFlight

InitWith(images) ==
    /\ heap \in {<<img>> : img \in images}
    /\ Idle(<<>>, -1, "null", FALSE, <<>>)

\* the engine call op(arg) on buffer 1 returned r
Returned(op, arg, r) ==
    /\ call.op = "none"
    /\ \E res \in {r} :
        /\ heap' = res.heap
        /\ call' = [op |-> op, arg |-> arg, src |-> 1, dst |-> res.ret]
    /\ err' = "none"
    /\ UNCHANGED <<fftLens, spectrum, shifted>>
    /\ EngineOnly

CallQuantization(levelSet) ==
    \E levels \in levelSet :
        Returned("quantization", levels, applyQuantization(heap, 1, levels))

CallConvolution(kernelSet) ==
    \E kernel \in kernelSet :
        Returned("convolution", kernel, applyConvolution(heap, 1, kernel))

CallBoxBlur(sizeSet) ==
    \E size \in sizeSet : Returned("boxBlur", size, applyBoxBlur(heap, 1, size))

CallGaussianBlur(sizeSet) ==
    \E size \in sizeSet :
        Returned("gaussianBlur", size, applyGaussianBlur(heap, 1, size))

CallMedian(sizeSet) ==
    \E size \in sizeSet : Returned("median", size, applyMedian(heap, 1, size))

CallThreshold(thresholdSet) ==
    \E threshold \in thresholdSet :
        Returned("threshold", threshold, applyThreshold(heap, 1, threshold))

\* fft1D called on an array of Complex: call.arg is the array, spectrum
\* holds the array returned as its one row
CallFft1D(dataSet) ==
    /\ call.op = "none"
    /\ \E data \in dataSet : \E r \in {fft1D(data)} :
        /\ call' = [op |-> "fft1D", arg |-> data, src |-> 0, dst |-> 0]
        /\ err' = IF r.thrown THEN "FFT length must be a power of 2" ELSE "none"
        /\ fftLens' = r.lens
        /\ spectrum' = <<r.value>>
    /\ UNCHANGED <<heap, shifted>>
    /\ EngineOnly

CallCustomFormula(formulaSet) ==
    \E formula \in formulaSet :
        Returned("customFormula", formula, applyCustomFormula(heap, 1, formula))

CallFFTSpectrum ==
    /\ call.op = "none"
    /\ \E r \in {applyFFTSpectrum(heap, 1)} :
        /\ heap' = r.heap
        /\ call' = [op |-> "fftSpectrum", arg |-> <<>>, src |-> 1, dst |-> r.ret]
        /\ err' = IF r.thrown THEN "FFT length must be a power of 2" ELSE "none"
        /\ fftLens' = r.lens
        /\ spectrum' = r.spectrum
        /\ shifted' = r.shifted
    /\ EngineOnly

-----------------------------------------------------------------------------
(* useHistory.  history[k] is the source's history[k - 1]; currentIndex    *)
(* counts from 0 as in the source, -1 meaning no current state.  Each call *)
(* is made from its own event, the component rendering between two events, *)
(* so a callback sees the history and the index of the latest call.        *)

MAX_HISTORY_SIZE == 50

HistoryState(filter, params) == [activeFilter |-> filter, filterParams |-> params]

\* push without the limit on the size of the history
pushUnlimited(h, i, state) ==
    LET newHistory == Append(SubSeq(h, 1, i + 1), state)
    IN  [history |-> newHistory, currentIndex |-> Len(newHistory) - 1]

\* prev.slice(0, currentIndex + 1), push(state), shift() beyond the limit
push(h, i, state) ==
    LET newHistory == Append(SubSeq(h, 1, i + 1), state)
        limited    == IF Len(newHistory) > MAX_HISTORY_SIZE THEN Tail(newHistory)
                      ELSE newHistory
    IN  [history |-> limited, currentIndex |-> Len(limited) - 1]

\* the index set and the state returned, <<>> for null
undo(h, i) ==
    IF i > 0 THEN [currentIndex |-> i - 1, state |-> <<h[i]>>]
    ELSE [currentIndex |-> i, state |-> <<>>]

redo(h, i) ==
    IF i < Len(h) - 1 THEN [currentIndex |-> i + 1, state |-> <<h[i + 2]>>]
    ELSE [currentIndex |-> i, state |-> <<>>]

-----------------------------------------------------------------------------
(* Dispatch of a filter to the engine: processImage of the worker and      *)
(* processImageSync of the App.  Both take the image, the filter and the   *)
(* parameters and return the image.  The engine operations of this module  *)
(* take logConstant = 1 and gaussianSigma = 1.                             *)

\* the image an engine operation returned
Image(r) == r.heap[r.ret]

processImageSync(imageData, filter, params) ==
    LET h == <<imageData>>
        \* the morphological operation on the thresholded image
        morphology(t) ==
            CASE filter = "erosion" -> applyErosion(t.heap, t.ret)
              [] filter = "dilation" -> applyDilation(t.heap, t.ret)
              [] filter = "opening" -> applyOpening(t.heap, t.ret)
              [] filter = "closing" -> applyClosing(t.heap, t.ret)
    IN  CASE filter = "negative" -> Image(applyNegative(h, 1))
          [] filter = "gamma" -> Image(applyGamma(h, 1, params.gamma, params.gammaConstant))
          [] filter = "log" -> Image(applyLog(h, 1))
          [] filter = "quantization" ->
                Image(applyQuantization(h, 1, params.quantizationLevels))
          [] filter = "sampling" -> Image(applySampling(h, 1, params.samplingFactor))
          [] filter = "equalization" -> Image(applyEqualization(h, 1))
          [] filter = "boxBlur" -> Image(applyBoxBlur(h, 1, params.kernelSize))
          [] filter = "gaussianBlur" -> Image(applyGaussianBlur(h, 1, params.kernelSize))
          [] filter = "sharpen" -> Image(applySharpen(h, 1))
          [] filter = "laplacian" -> Image(applyLaplacian(h, 1))
          [] filter = "threshold" -> Image(applyThreshold(h, 1, params.threshold))
          [] filter \in {"erosion", "dilation", "opening", "closing"} ->
                Image(morphology(applyThreshold(h, 1, params.threshold)))
          [] filter = "customFormula" ->
                Image(applyCustomFormula(h, 1, params.customFormula))
          [] filter = "customKernel" -> Image(applyCustomKernel(h, 1, params.customKernel))
          [] filter = "sobelX" -> Image(applySobelX(h, 1))
          [] filter = "sobelY" -> Image(applySobelY(h, 1))
          [] filter = "sobelMagnitude" -> Image(applySobelMagnitude(h, 1))
          [] filter = "median" -> Image(applyMedian(h, 1, params.kernelSize))
          [] filter = "grayscale" -> Image(applyGrayscale(h, 1))
          [] filter = "sepia" -> Image(applySepia(h, 1))
          [] filter = "swapChannels" -> Image(applySwapChannels(h, 1))
          [] OTHER -> imageData

processImage(imageData, filter, params) ==
    LET h == <<imageData>>
        \* the morphological operation on the thresholded image
        morphology(t) ==
            CASE filter = "erosion" -> applyErosion(t.heap, t.ret)
              [] filter = "dilation" -> applyDilation(t.heap, t.ret)
              [] filter = "opening" -> applyOpening(t.heap, t.ret)
              [] filter = "closing" -> applyClosing(t.heap, t.ret)
    IN  CASE filter = "negative" -> Image(applyNegative(h, 1))
          [] filter = "gamma" -> Image(applyGamma(h, 1, params.gamma, params.gammaConstant))
          [] filter = "log" -> Image(applyLog(h, 1))
          [] filter = "quantization" ->
                Image(applyQuantization(h, 1, params.quantizationLevels))
          [] filter = "sampling" -> Image(applySampling(h, 1, params.samplingFactor))
          [] filter = "equalization" -> Image(applyEqualization(h, 1))
          [] filter = "boxBlur" -> Image(applyBoxBlur(h, 1, params.kernelSize))
          [] filter = "gaussianBlur" -> Image(applyGaussianBlur(h, 1, params.kernelSize))
          [] filter = "sharpen" -> Image(applySharpen(h, 1))
          [] filter = "laplacian" -> Image(applyLaplacian(h, 1))
          [] filter = "threshold" -> Image(applyThreshold(h, 1, params.threshold))
          [] filter \in {"erosion", "dilation", "opening", "closing"} ->
                Image(morphology(applyThreshold(h, 1, params.threshold)))
          [] filter = "customFormula" ->
                Image(applyCustomFormula(h, 1, params.customFormula))
          [] filter = "customKernel" -> Image(applyCustomKernel(h, 1, params.customKernel))
          [] filter = "sobelX" -> Image(applySobelX(h, 1))
          [] filter = "sobelY" -> Image(applySobelY(h, 1))
          [] filter = "sobelMagnitude" -> Image(applySobelMagnitude(h, 1))
          [] filter = "median" -> Image(applyMedian(h, 1, params.kernelSize))
          [] filter = "grayscale" -> Image(applyGrayscale(h, 1))
          [] filter = "sepia" -> Image(applySepia(h, 1))
          [] filter = "swapChannels" -> Image(applySwapChannels(h, 1))
          [] filter = "fftSpectrum" -> Image(applyFFTSpectrum(h, 1))
          [] OTHER -> imageData

-----------------------------------------------------------------------------
(* The App with the worker.  An action is one task of the main thread (an  *)
(* event handler, the render it causes and the effects of that render, or  *)
(* a message handler with the promise reactions it triggers) or one task   *)
(* of the worker.  toWorker and toMain are the messages posted and not yet *)
(* handled, in the order posted.  A promise returned by the hook's         *)
(* processImage is [filter, params, state, requestId, original]: state is  *)
(* "pending", "resolved" or "rejected", the other fields are what the      *)
(* App's reactions to it close over.  The hook's own isProcessing,         *)
(* lastProcessingTime and error, which nothing reads, are left out.  The   *)
(* processing effect is taken to run when one of its dependencies changes  *)
(* value, and after every handleParamChange, which builds a new object.    *)

\* the engine is not called by the handlers: call names the task that ran
Task(op, arg) ==
    /\ call' = [op |-> op, arg |-> arg, src |-> 0, dst |-> 0]
    /\ UNCHANGED <<heap, err, fftLens, spectrum, shifted, workers>>

\* the render after a task of the main thread and the processing effect of
\* the App, run when a dependency changed.  workerProcess is the hook's
\* processImage: without a worker it returns the image it was given, and
\* the reaction to that promise runs before any other task.
Rendered(fresh) ==
    LET img    == originalImage'
        filter == activeFilter'
        params == filterParams'
        ran    == \/ fresh
                  \/ <<img, filter, params, isReady'>>
                       # <<originalImage, activeFilter, filterParams, isReady>>
        requestId == requestIdRef + 1
        promise(id, state) ==
            [filter |-> filter, params |-> params, state |-> state, requestId |-> id,
             original |-> img]
    IN  IF ~ran
        THEN UNCHANGED <<processedImage, isProcessing, requestIdRef, pendingRequestsRef,
                         promises, toWorker>>
        ELSE IF img = NoImage
        THEN /\ processedImage' = NoImage
             /\ UNCHANGED <<isProcessing, requestIdRef, pendingRequestsRef, promises,
                            toWorker>>
        ELSE IF filter = "none"
        THEN /\ processedImage' = img
             /\ isProcessing' = FALSE
             /\ UNCHANGED <<requestIdRef, pendingRequestsRef, promises, toWorker>>
        ELSE IF ~isReady'
        THEN /\ processedImage' = processImageSync(img, filter, params)
             /\ isProcessing' = FALSE
             /\ UNCHANGED <<requestIdRef, pendingRequestsRef, promises, toWorker>>
        ELSE IF ~enabled \/ workerRef = "null"
        THEN /\ processedImage' = img
             /\ isProcessing' = FALSE
             /\ promises' = Append(promises, promise(0, "resolved"))
             /\ UNCHANGED <<requestIdRef, pendingRequestsRef, toWorker>>
        ELSE /\ requestIdRef' = requestId
             /\ pendingRequestsRef' = pendingRequestsRef \cup {requestId}
             /\ promises' = Append(promises, promise(requestId, "pending"))
             /\ toWorker' = Append(toWorker,
                                   [filter |-> filter, params |-> params,
                                    imageData |-> img, requestId |-> requestId,
                                    type |-> "process"])
             /\ isProcessing' = TRUE
             /\ UNCHANGED processedImage

\* an event of the user: the handler ran, then the render and the effect
UserEvent(op, arg, fresh) ==
    /\ mounted
    /\ steps < MaxEvents
    /\ steps' = steps + 1
    /\ Task(op, arg)
    /\ UNCHANGED <<mounted, enabled, workerRef, isReady, toMain>>
    /\ Rendered(fresh)

\* an image was loaded (processImage of handleFileChange, handleLoadSample)
LoadImage(images) ==
    \E img \in images :
        /\ originalImage' = img
        /\ activeFilter' = "none"
        /\ filterParams' = DEFAULT_FILTER_PARAMS
        /\ before' = <<>>
        /\ UNCHANGED <<history, currentIndex>>
        /\ UserEvent("setOriginalImage", img, FALSE)

handleFilterChange(filters) ==
    \E filter \in filters : \E pushed \in {push(history, currentIndex,
                                                HistoryState(filter, filterParams))} :
        /\ history' = pushed.history
        /\ currentIndex' = pushed.currentIndex
        /\ activeFilter' = filter
        /\ before' = <<HistoryState(activeFilter, filterParams)>>
        /\ UNCHANGED <<filterParams, originalImage>>
        /\ UserEvent("handleFilterChange", filter, FALSE)

\* the parameter changed is the threshold
handleParamChange(values) ==
    \E value \in values :
        \E newParams \in {[filterParams EXCEPT !.threshold = value]} :
        \E pushed \in {push(history, currentIndex, HistoryState(activeFilter, newParams))} :
            /\ history' = pushed.history
            /\ currentIndex' = pushed.currentIndex
            /\ filterParams' = newParams
            /\ before' = <<HistoryState(activeFilter, filterParams)>>
            /\ UNCHANGED <<activeFilter, originalImage>>
            /\ UserEvent("handleParamChange", value, TRUE)

handleReset ==
    \E pushed \in {push(history, currentIndex,
                        HistoryState("none", DEFAULT_FILTER_PARAMS))} :
        /\ history' = pushed.history
        /\ currentIndex' = pushed.currentIndex
        /\ activeFilter' = "none"
        /\ filterParams' = DEFAULT_FILTER_PARAMS
        /\ before' = <<HistoryState(activeFilter, filterParams)>>
        /\ UNCHANGED originalImage
        /\ UserEvent("handleReset", <<>>, FALSE)

\* handleUndo and handleRedo, also the key handlers of Ctrl+Z and Ctrl+Y:
\* moved is what history.undo() or history.redo() did.  call.arg keeps the
\* state that was in effect before the change event this task follows, if
\* it follows one
Restore(op, moved) ==
    /\ currentIndex' = moved.currentIndex
    /\ activeFilter' = IF moved.state = <<>> THEN activeFilter
                       ELSE moved.state[1].activeFilter
    /\ filterParams' = IF moved.state = <<>> THEN filterParams
                       ELSE moved.state[1].filterParams
    /\ before' = <<>>
    /\ UNCHANGED <<history, originalImage>>
    /\ UserEvent(op, before, FALSE)

\* self.onmessage of the worker: it answers the oldest request with the
\* result, or with an error when processImage threw (an allocation that
\* failed)
WorkerOnMessage ==
    /\ mounted /\ workerRef = "worker" /\ toWorker # <<>>
    /\ \E request \in {Head(toWorker)} :
       \E response \in {[imageData |-> processImage(request.imageData, request.filter,
                                                    request.params),
                         requestId |-> request.requestId, type |-> "result"],
                        [imageData |-> NoImage, requestId |-> request.requestId,
                         type |-> "error"]} :
            /\ toWorker' = Tail(toWorker)
            /\ toMain' = Append(toMain, response)
            /\ Task("self.onmessage", response.type)
    /\ UNCHANGED <<history, currentIndex, appVars, steps, mounted, enabled, workerRef,
                   requestIdRef, pendingRequestsRef, isReady, promises>>

\* an error escapes the worker's handler (one thrown while its catch block
\* runs, for instance): the request it was handling gets no answer and an
\* error event is sent to the main thread
WorkerThrows ==
    /\ mounted /\ workerRef = "worker" /\ toWorker # <<>>
    /\ toWorker' = Tail(toWorker)
    /\ toMain' = Append(toMain, [imageData |-> NoImage, requestId |-> 0,
                                 type |-> "errorEvent"])
    /\ Task("throw", <<>>)
    /\ UNCHANGED <<history, currentIndex, appVars, steps, mounted, enabled, workerRef,
                   requestIdRef, pendingRequestsRef, isReady, promises>>

\* workerRef.current.onmessage and onerror of the hook for the oldest
\* message, and the App's reaction to the promise settled: then() stores
\* the result, catch() the result of processImageSync on what the effect
\* closed over
OnMessage ==
    /\ mounted /\ toMain # <<>>
    /\ toMain' = Tail(toMain)
    /\ Task("onmessage", Head(toMain).type)
    /\ UNCHANGED <<history, currentIndex, activeFilter, filterParams, originalImage, before, steps,
                   mounted, enabled, workerRef>>
    /\ LET data     == Head(toMain)
           settles  == /\ data.type \in {"result", "error"}
                       /\ data.requestId \in pendingRequestsRef
           k        == CHOOSE n \in DOMAIN promises : promises[n].requestId = data.requestId
       IN  IF data.type \in {"ready", "errorEvent"}
           THEN /\ isReady' = (data.type = "ready")
                /\ Rendered(FALSE)
           ELSE IF ~settles
           THEN UNCHANGED <<isReady, processedImage, isProcessing, requestIdRef,
                            pendingRequestsRef, promises, toWorker>>
           ELSE /\ pendingRequestsRef' = pendingRequestsRef \ {data.requestId}
                /\ promises' = [promises EXCEPT ![k].state =
                                   IF data.type = "result" THEN "resolved" ELSE "rejected"]
                /\ processedImage' =
                       IF data.type = "result" THEN data.imageData
                       ELSE processImageSync(promises[k].original, promises[k].filter,
                                             promises[k].params)
                /\ isProcessing' = FALSE
                /\ UNCHANGED <<isReady, requestIdRef, toWorker>>

\* the App is unmounted: the cleanup of the hook's effect terminates the
\* worker and forgets the pending requests
Unmount ==
    /\ mounted
    /\ mounted' = FALSE
    /\ workerRef' = "null"
    /\ pendingRequestsRef' = {}
    /\ toWorker' = <<>>
    /\ toMain' = <<>>
    /\ Task("cleanup", <<>>)
    /\ UNCHANGED <<history, currentIndex, appVars, steps, enabled, requestIdRef, isReady, promises>>

-----------------------------------------------------------------------------
(* The rows of an operation computed out of order.  The loops over y and x *)
(* of applyConvolution, applyErosion, applyDilation and applyMedian read   *)
(* data, the buffer of the input, and write the four samples of the pixel  *)
(* (x, y) into result, a new buffer of zeros.  Here each row of result is  *)
(* given to one of several workers; a worker takes its rows in any order   *)
(* and computes a row pixel by pixel, the workers interleaving freely.     *)

\* the buffer the body of the loops reads
RowInputInPlace(h, c) == h[c.dst]

RowInput(h, c) == h[c.src]

\* the sample the body of the loops writes for the pixel (x, y), channel c
RowSample(img, op, arg, x, y, c) ==
    CASE op = "convolution" ->
            IF c = 3 THEN At(img.data, (y * img.width + x) * 4 + 3)
            ELSE ToUint8Clamped(MathRound(KernelSum(img, arg, x, y, c, 0), arg.den), 1)
      [] op = "erosion" ->
            IF c = 3 THEN At(img.data, (y * img.width + x) * 4 + 3)
            ELSE ErosionMin(img, x, y)
      [] op = "dilation" ->
            IF c = 3 THEN At(img.data, (y * img.width + x) * 4 + 3)
            ELSE DilationMax(img, x, y)
      [] op = "median" -> MedianSample(img, arg, x, y, c)

\* result = new Uint8ClampedArray(data.length); every row is given to one
\* of n workers
StartRows ==
    /\ call.op = "none"
    /\ \E job \in ({"convolution"} \X {KERNELS.sharpen, PRESET_KERNELS.blur})
                    \cup ({"erosion", "dilation"} \X {<<>>})
                    \cup ({"median"} \X {3}) :
        /\ call' = [op |-> job[1], arg |-> job[2], src |-> 1, dst |-> 2]
        /\ heap' = Append(heap, ImageData([p \in 1..Len(heap[1].data) |-> 0],
                                          heap[1].width, heap[1].height))
    /\ \E n \in 1..MaxWorkers : \E owner \in [0..(heap[1].height - 1) -> 1..n] :
        workers' = [w \in 1..n |->
                      [rows |-> {r \in DOMAIN owner : owner[r] = w},
                       y |-> -1, x |-> 0, did |-> <<>>]]
    /\ UNCHANGED <<err, fftLens, spectrum, shifted, history, currentIndex, appVars, steps, hookVars>>

\* a worker that is between two rows takes any of the rows it still has
TakeRow ==
    /\ \E w \in DOMAIN workers : \E r \in workers[w].rows :
        /\ workers[w].y = -1
        /\ workers' = [workers EXCEPT ![w] = [rows |-> @.rows \ {r}, y |-> r, x |-> 0,
                                              did |-> Append(@.did, r)]]
    /\ UNCHANGED <<heap, call, err, fftLens, spectrum, shifted, history, currentIndex,
                   appVars, steps, hookVars>>

\* a worker computes the next pixel of its row: result[outIdx .. outIdx + 3]
ComputePixel ==
    /\ \E w \in DOMAIN workers :
        LET x      == workers[w].x
            y      == workers[w].y
            img    == RowInput(heap, call)
            outIdx == (y * img.width + x) * 4
        IN  /\ y >= 0
            /\ heap' = [heap EXCEPT ![call.dst].data =
                           [p \in DOMAIN @ |->
                               IF p - 1 \in outIdx..(outIdx + 3)
                               THEN RowSample(img, call.op, call.arg, x, y, p - 1 - outIdx)
                               ELSE @[p]]]
            /\ workers' = [workers EXCEPT ![w].x = IF x + 1 < img.width THEN x + 1 ELSE 0,
                                          ![w].y = IF x + 1 < img.width THEN y ELSE -1]
    /\ UNCHANGED <<call, err, fftLens, spectrum, shifted, history, currentIndex, appVars, steps,
                   hookVars>>

-----------------------------------------------------------------------------
(* Specifications.  Spec: every operation on small images whose pixels     *)
(* have integral luminances and three different alpha samples.             *)

Next ==
    \/ Returned("negative", <<>>, applyNegative(heap, 1))
    \/ (\E a \in {1, 2, 4} \X {1, 2} :   \* gamma 1/2, 1 and 2, c 1 and 2
          Returned("gamma", a, applyGamma(heap, 1, a[1], a[2])))
    \/ Returned("log", <<>>, applyLog(heap, 1))
    \/ CallQuantization({2, 8, 256})
    \/ (\E factor \in {1, 2, 40} :
          Returned("sampling", factor, applySampling(heap, 1, factor)))
    \/ Returned("equalization", <<>>, applyEqualization(heap, 1))
    \/ CallConvolution({PRESET_KERNELS.sharpen, generateBoxKernel(5)})
    \/ (\E kernel \in {PRESET_KERNELS.emboss, PRESET_KERNELS.blur} :
          Returned("customKernel", kernel, applyCustomKernel(heap, 1, kernel)))
    \/ CallBoxBlur({3, 5})
    \/ CallGaussianBlur({3, 5})
    \/ Returned("sharpen", <<>>, applySharpen(heap, 1))
    \/ Returned("laplacian", <<>>, applyLaplacian(heap, 1))
    \/ CallMedian({3, 5})
    \/ CallThreshold({128})
    \/ Returned("erosion", <<>>, applyErosion(heap, 1))
    \/ Returned("dilation", <<>>, applyDilation(heap, 1))
    \/ Returned("opening", <<>>, applyOpening(heap, 1))
    \/ Returned("closing", <<>>, applyClosing(heap, 1))
    \/ Returned("sobelX", <<>>, applySobelX(heap, 1))
    \/ Returned("sobelY", <<>>, applySobelY(heap, 1))
    \/ Returned("sobelMagnitude", <<>>, applySobelMagnitude(heap, 1))
    \/ Returned("grayscale", <<>>, applyGrayscale(heap, 1))
    \/ Returned("sepia", <<>>, applySepia(heap, 1))
    \/ Returned("swapChannels", <<>>, applySwapChannels(heap, 1))
    \/ CallFFTSpectrum
    \/ CallCustomFormula({
          <<"r", " ", "+">>,   \* r +
          <<"r", " ", "/", " ", "0">>,   \* r / 0
          <<"2", "5", "5", " ", "-", " ", "r">>,   \* 255 - r
          <<"r", " ", "*", " ", "1", ".", "5">>,   \* r * 1.5
          <<"x", " ", "+", " ", "y", " ", "*", " ", "w">>,   \* x + y * w
          <<"r", "o", "u", "n", "d", "(", "r", " ", "/", " ", "2", ")">>,   \* round(r / 2)
          <<"(", "r", " ", "+", " ", "g", " ", "+", " ", "b", ")", " ", "/", " ", "3">>   \* (r + g + b) / 3
       })

Spec ==
    /\ InitWith(SpotImages(MaxW, MaxH,
                        {<<0, 0, 0, 255>>, <<255, 255, 255, 128>>, <<100, 100, 100, 0>>},
                        MaxSpots))
    /\ [][Next]_vars

\* applyConvolution on images of two colours whose channels all differ,
\* with the presets, a 1x1 kernel, a kernel of halves and a 5x5 kernel
SpecConv ==
    /\ InitWith(SpotImages(MaxConvW, MaxConvH,
                           {<<11, 200, 93, 255>>, <<250, 45, 130, 77>>}, MaxSpots))
    /\ [][CallConvolution({Kernel(<< <<3>> >>, 2),
                           PRESET_KERNELS.emboss, PRESET_KERNELS.edgeDetect,
                           PRESET_KERNELS.sharpen, PRESET_KERNELS.identity,
                           Kernel(<< <<1, 0, 0>>, <<0, 0, 0>>, <<0, 0, 1>> >>, 2),
                           PRESET_KERNELS.blur,
                           generateBoxKernel(5)})]_vars

\* applyNegative on one pixel for every sample value, the channels
\* differing
SpecNegative ==
    /\ InitWith({FromPixels(<< <<v, 255 - v, (3 * v) % 256, (v + 128) % 256>> >>, 1, 1) :
                    v \in 0..255})
    /\ [][Returned("negative", <<>>, applyNegative(heap, 1))]_vars

\* applyQuantization with every levels argument from -2 to MaxLevels
SpecQuantization ==
    /\ InitWith({FromPixels(<< <<v, 255 - v, 128, 255>>, <<(v + 1) % 256, 0, 255, 3>> >>,
                            2, 1) : v \in {0, 127, 200, 255}})
    /\ [][CallQuantization((-2)..MaxLevels)]_vars

\* applyThreshold on every grey and on some colours, with thresholds at
\* the ends, in the middle and beyond the range
SpecThreshold ==
    /\ InitWith({FromPixels(<< <<v, v, v, 255>> >>, 1, 1) : v \in 0..255}
                  \cup {FromPixels(<< <<200, 100, 50, 9>>, <<255, 0, 0, 255>> >>, 2, 1),
                        FromPixels(<< <<0, 255, 0, 255>>, <<12, 250, 99, 0>> >>, 1, 2)})
    /\ [][CallThreshold({0, 1, 76, 77, 100, 124, 125, 127, 128, 129, 200, 254, 255, 256})]_vars

\* the morphological operations on binary images
SpecMorph ==
    /\ InitWith(SpotImages(MaxMorphDim, MaxMorphDim,
                           {<<0, 0, 0, 255>>, <<255, 255, 255, 255>>}, MaxMorphSpots))
    /\ [][\/ Returned("erosion", <<>>, applyErosion(heap, 1))
          \/ Returned("dilation", <<>>, applyDilation(heap, 1))
          \/ Returned("opening", <<>>, applyOpening(heap, 1))
          \/ Returned("closing", <<>>, applyClosing(heap, 1))]_vars

\* applyFFTSpectrum on black and white images
SpecFFT ==
    /\ InitWith(SpotImages(MaxFFTDim, MaxFFTDim,
                           {<<0, 0, 0, 255>>, <<255, 255, 255, 255>>}, MaxFFTSpots))
    /\ [][CallFFTSpectrum]_vars

\* fft1D on the arrays of every length up to RootOrder in which all
\* elements are one Complex except at most MaxFFTSpots + 1 of them; the
\* elements are 0, 1, -i and 2 + 3i
SpecFft1D ==
    /\ InitWith({FromPixels(<< <<0, 0, 0, 255>> >>, 1, 1)})
    /\ [][CallFft1D(UNION {
             { Array([m \in 1..n |-> IF m \in on THEN pair[2] ELSE pair[1]]) :
                 on \in SmallSubsets(1..n, MaxFFTSpots + 1),
                 pair \in {q \in {complex(0), complex(1), Twiddle(1, 4),
                                  subtract(complex(2), multiply(Twiddle(1, 4), complex(3)))}
                                 \X {complex(0), complex(1), Twiddle(1, 4),
                                     subtract(complex(2),
                                              multiply(Twiddle(1, 4), complex(3)))} :
                              q[1] # q[2]} } :
             n \in 0..RootOrder })]_vars

\* applyCustomFormula on images of pixels whose samples are squares, with
\* formulas of the grammar, formulas whose value is NaN or infinite,
\* formulas that use other names and formulas that are not expressions
SpecFormula ==
    /\ InitWith(SpotImages(MaxW, MaxH,
                           {<<100, 144, 225, 255>>, <<9, 16, 25, 128>>, <<0, 1, 49, 0>>},
                           MaxFormulaSpots))
    /\ [][CallCustomFormula({
             <<>>,   \*
             <<"(", "r">>,   \* (r
             <<"r", " ", "+">>,   \* r +
             <<"r", " ", "r">>,   \* r r
             <<"s", "i", "n">>,   \* sin
             <<"f", "o", "o">>,   \* foo
             <<"N", "a", "N">>,   \* NaN
             <<"r", "(", "2", ")">>,   \* r(2)
             <<"a", "b", "s", "(", ")">>,   \* abs()
             <<"0", " ", "/", " ", "0">>,   \* 0 / 0
             <<"r", " ", "/", " ", "0">>,   \* r / 0
             <<"R", " ", "+", " ", "1">>,   \* R + 1
             <<"E", " ", "*", " ", "1", "0">>,   \* E * 10
             <<"2", "5", "5", " ", "-", " ", "r">>,   \* 255 - r
             <<"r", " ", "*", " ", "1", ".", "5">>,   \* r * 1.5
             <<"s", "q", "r", "t", "(", "r", ")">>,   \* sqrt(r)
             <<"-", "r", " ", "+", " ", "3", "0", "0">>,   \* -r + 300
             <<"-", " ", "r", " ", "*", "*", " ", "2">>,   \* - r ** 2
             <<"I", "n", "f", "i", "n", "i", "t", "y">>,   \* Infinity
             <<"r", " ", "%", " ", "7", " ", "+", " ", "h">>,   \* r % 7 + h
             <<"a", "b", "s", "(", "r", " ", "-", " ", "g", ")">>,   \* abs(r - g)
             <<"P", "I", " ", "*", " ", "r", " ", "/", " ", "4">>,   \* PI * r / 4
             <<"r", " ", "^", " ", "2", " ", "/", " ", "2", "5", "5">>,   \* r ^ 2 / 255
             <<"c", "e", "i", "l", "(", "r", " ", "/", " ", "2", ")">>,   \* ceil(r / 2)
             <<"r", "o", "u", "n", "d", "(", "r", " ", "/", " ", "2", ")">>,   \* round(r / 2)
             <<"f", "l", "o", "o", "r", "(", "r", " ", "/", " ", "2", ")">>,   \* floor(r / 2)
             <<"m", "i", "n", "(", "r", ",", " ", "b", ")", " ", "+", " ", "x">>,   \* min(r, b) + x
             <<"(", "r", " ", "+", " ", "g", " ", "+", " ", "b", ")", " ", "/", " ", "3">>,   \* (r + g + b) / 3
             <<"m", "a", "x", "(", "g", ",", " ", "1", "2", "8", ")", " ", "-", " ", "y", " ", "*", " ", "w">>   \* max(g, 128) - y * w
          })]_vars

\* the box blur, the Gaussian blur and the median filter with the sizes 1
\* to 5, the even ones included
SpecSize ==
    /\ InitWith(SpotImages(MaxConvW, MaxConvH,
                           {<<11, 200, 93, 255>>, <<250, 45, 130, 77>>}, MaxSpots))
    /\ [][CallBoxBlur(1..5) \/ CallGaussianBlur(1..5) \/ CallMedian(1..5)]_vars

\* applyConvolution with the identity kernels of the sizes 1, 3 and 5
SpecIdentity ==
    /\ InitWith(SpotImages(MaxConvW, MaxConvH,
                           {<<11, 200, 93, 255>>, <<250, 45, 130, 77>>}, MaxSpots))
    /\ [][CallConvolution({Kernel([y \in 1..k |-> [x \in 1..k |->
                                      IF x = k \div 2 + 1 /\ y = k \div 2 + 1 THEN 1 ELSE 0]],
                                  1) : k \in {1, 3, 5}})]_vars

\* applyGamma on one pixel for every sample value, the channels differing
SpecGamma ==
    /\ InitWith({FromPixels(<< <<v, 255 - v, (3 * v) % 256, (v + 128) % 256>> >>, 1, 1) :
                    v \in 0..255})
    /\ [][(\E a \in {1, 2, 4} \X {1, 2} :   \* gamma 1/2, 1 and 2, c 1 and 2
          Returned("gamma", a, applyGamma(heap, 1, a[1], a[2])))]_vars

\* applyEqualization on the images of every size whose pixels all have one
\* colour (every grey, and colours whose channels differ), and on one row
\* of n pixels whose samples rise along the row: s levels apart in red, one
\* level every two pixels in green
SpecEqualization ==
    /\ InitWith({FromPixels([k \in 1..(w * ht) |-> px], w, ht) :
                    w \in 1..MaxW, ht \in 1..MaxH,
                    px \in {<<v, v, v, 255>> : v \in 0..255}
                           \cup {<<v, 255 - v, (3 * v) % 256, 7>> : v \in {0, 50, 200}}}
                \cup {FromPixels([k \in 1..n |->
                        <<(s * (k - 1)) % 256, ((k - 1) \div 2) % 256, (k * k) % 256, 255>>],
                    n, 1) : n \in {2, 3, MaxRamp}, s \in {1, 3}})
    /\ [][Returned("equalization", <<>>, applyEqualization(heap, 1))]_vars

\* applyLaplacian on images of one or two colours
SpecLaplacian ==
    /\ InitWith(SpotImages(MaxConvW, MaxConvH,
                           {<<11, 200, 93, 255>>, <<250, 45, 130, 77>>}, MaxSpots))
    /\ [][Returned("laplacian", <<>>, applyLaplacian(heap, 1))]_vars

\* the rows of the convolution, the erosion, the dilation and the median
\* filter computed by up to MaxWorkers workers, on images of width 1 and 3
\* whose pixels all differ
SpecRows ==
    /\ InitWith({FromPixels([k \in 1..(w * ht) |->
                                <<(37 * k * k) % 256, (91 * k + 5) % 256,
                                  (200 + 13 * k) % 256, 255 - k>>], w, ht) :
                    w \in {1, 3}, ht \in 1..MaxRows})
    /\ [][StartRows \/ TakeRow \/ ComputePixel]_vars

\* the App with its worker: images are loaded, filters and thresholds are
\* chosen, changes are undone and redone, while the worker answers.  The
\* worker was created, or its creation failed.
AppInit ==
    /\ heap = <<>>
    /\ \/ Idle(<<>>, -1, "worker", FALSE,
               << [imageData |-> NoImage, requestId |-> 0, type |-> "ready"] >>)
       \/ Idle(<<>>, -1, "null", TRUE, <<>>)

SpecApp ==
    /\ AppInit
    /\ [][\/ LoadImage({FromPixels(<< <<128, 128, 128, 255>> >>, 1, 1),
                        FromPixels(<< <<10, 200, 90, 255>>, <<250, 40, 130, 77>> >>, 2, 1)})
          \/ handleFilterChange({"threshold", "none", "negative"})
          \/ handleParamChange({64, 200})
          \/ handleReset
          \/ Restore("handleUndo", undo(history, currentIndex))
          \/ Restore("handleRedo", redo(history, currentIndex))
          \/ WorkerOnMessage
          \/ WorkerThrows
          \/ OnMessage]_vars

\* useImageWorker with the App as the caller of its processImage: filters
\* are chosen on a loaded image, the worker answers, throws or is
\* terminated by the cleanup.  The worker and the main thread handle the
\* messages they are sent (weak fairness of the two message handlers).
SpecHook ==
    /\ AppInit
    /\ [][\/ LoadImage({FromPixels(<< <<10, 200, 90, 255>>, <<250, 40, 130, 77>> >>, 2, 1)})
          \/ handleFilterChange({"negative", "swapChannels"})
          \/ WorkerOnMessage
          \/ WorkerThrows
          \/ OnMessage
          \/ Unmount]_vars
    /\ WF_vars(WorkerOnMessage)
    /\ WF_vars(OnMessage)

\* the images that differ from img in green and blue samples only
GreenBlueVariants(img) ==
    {ImageData([p \in 1..Len(img.data) |->
                   CASE ChannelOf(p) = 1 -> (img.data[p] + d) % 256
                     [] ChannelOf(p) = 2 -> (img.data[p] + 2 * d + PixelOf(p)) % 256
                     [] OTHER -> img.data[p]],
               img.width, img.height) : d \in {0, 1, 100}}

\* the same operation on the image and on one that differs from it in
\* green and blue only: heap[2] is the second input, heap[3] and heap[4]
\* are the two results
CallOnBoth(op) ==
    /\ call.op = "none"
    /\ \E other \in GreenBlueVariants(heap[1]) :
        \E first \in {IF op = "erosion" THEN applyErosion(<<heap[1], other>>, 1)
                      ELSE applyDilation(<<heap[1], other>>, 1)} :
        \E second \in {IF op = "erosion" THEN applyErosion(first.heap, 2)
                       ELSE applyDilation(first.heap, 2)} :
            /\ heap' = second.heap
            /\ call' = [op |-> op, arg |-> <<2, second.ret>>, src |-> 1, dst |-> first.ret]
    /\ err' = "none"
    /\ UNCHANGED <<fftLens, spectrum, shifted>>
    /\ EngineOnly

\* erosion and dilation of colour images whose pixels all differ
SpecRed ==
    /\ InitWith(
        {FromPixels([k \in 1..(w * ht) |->
                        <<(s * k + 11 * k * k) % 256, (s + 50 * k) % 256,
                          (90 + s * k) % 256, 255 - k>>], w, ht) :
            w \in 1..MaxMorphDim, ht \in 1..MaxMorphDim, s \in {0, 97, 255}})
    /\ [][CallOnBoth("erosion") \/ CallOnBoth("dilation")]_vars

\* the main thread and the worker process the same image with the same
\* filter and parameters: heap[2] is what processImageSync returns and
\* heap[3] what the worker's processImage returns
CallProcessImage(filters, paramSet) ==
    /\ call.op = "none"
    /\ \E filter \in filters, params \in paramSet :
        \E sync \in {processImageSync(heap[1], filter, params)},
           worker \in {processImage(heap[1], filter, params)} :
            /\ heap' = <<heap[1], sync, worker>>
            /\ call' = [op |-> "processImage", arg |-> <<filter, params>>,
                        src |-> 1, dst |-> 3]
    /\ err' = "none"
    /\ UNCHANGED <<fftLens, spectrum, shifted>>
    /\ EngineOnly

SpecProcess ==
    /\ InitWith(SpotImages(MaxW, MaxH,
                           {<<0, 0, 0, 255>>, <<255, 255, 255, 255>>, <<200, 30, 90, 255>>},
                           1))
    /\ [][CallProcessImage(
             \* the values of FilterType
             {"sharpen", "laplacian", "threshold", "grayscale", "gamma", "customFormula",
              "customKernel", "none", "quantization", "boxBlur", "gaussianBlur", "median",
              "fftSpectrum", "erosion", "dilation", "opening", "closing", "negative", "log",
              "sampling", "equalization", "sobelX", "sobelY", "sobelMagnitude", "sepia",
              "swapChannels"},
             {[DEFAULT_FILTER_PARAMS EXCEPT !.threshold = 64,
                                            !.quantizationLevels = 4,
                                            !.samplingFactor = 2,
                                            !.kernelSize = 5],
              DEFAULT_FILTER_PARAMS})]_vars

\* useHistory called by a component: op(arg) left the history h and the
\* index i
HistoryCall(op, arg, h, i) ==
    /\ steps < MaxCalls
    /\ steps' = steps + 1
    /\ history' = h
    /\ currentIndex' = i
    /\ Task(op, arg)
    /\ UNCHANGED <<appVars, hookVars>>

\* push, undo, redo and clear called on a history that n pushes of
\* different states followed by undos leave, for every n up to the limit:
\* the k-th state pushed has the threshold k
SpecHistory ==
    /\ heap = <<>>
    /\ \E n \in 0..MAX_HISTORY_SIZE : \E i \in IF n = 0 THEN {-1} ELSE 0..(n - 1) :
        Idle([k \in 1..n |->
                 HistoryState("threshold", [DEFAULT_FILTER_PARAMS EXCEPT !.threshold = k])],
             i, "null", TRUE, <<>>)
    /\ [][\/ \E state \in {HistoryState("negative", DEFAULT_FILTER_PARAMS),
                            HistoryState("sepia", DEFAULT_FILTER_PARAMS)} :
             \E pushed \in {push(history, currentIndex, state)} :
                HistoryCall("push", state, pushed.history, pushed.currentIndex)
          \/ HistoryCall("undo", <<>>, history, undo(history, currentIndex).currentIndex)
          \/ HistoryCall("redo", <<>>, history, redo(history, currentIndex).currentIndex)
          \/ HistoryCall("clear", <<>>, <<>>, -1)]_vars

-----
(* Properties.                                                             *)

C2_InputUntouched ==
    [][call'.op # "none" =>
          /\ \A id \in DOMAIN heap : heap'[id] = heap[id]
          /\ call'.src \in DOMAIN heap
          /\ call'.dst \in DOMAIN heap'
          /\ call'.dst \notin DOMAIN heap
          /\ call'.dst # call'.src]_vars

\* equalization returned a buffer that differs from its input, which is
\* still in place
C2_Witness ==
    /\ call.op = "equalization"
    /\ call.dst # call.src
    /\ heap[call.dst].data # heap[call.src].data
    /\ Len(heap) = 2

\* C3: for every operation other than the FFT spectrum, the alpha sample of
\* every output pixel is the alpha sample of the input pixel at that
\* position.
C3_AlphaPreserved ==
    call.op \notin {"none", "fftSpectrum"} =>
        LET in  == heap[call.src]
            out == heap[call.dst]
        IN  /\ out.width = in.width
            /\ out.height = in.height
            /\ Len(out.data) = Len(in.data)
            /\ \A px \in 0..(in.width * in.height - 1) :
                   out.data[px * 4 + 4] = in.data[px * 4 + 4]

\* a threshold of an image that holds two different alpha samples, neither
\* of them 255
C3_Witness ==
    /\ call.op = "threshold"
    /\ \E px, qx \in 0..(heap[1].width * heap[1].height - 1) :
           /\ heap[1].data[px * 4 + 4] = 128
           /\ heap[1].data[qx * 4 + 4] = 0
           /\ heap[call.dst].data[px * 4 + 4] = 128
           /\ heap[call.dst].data[qx * 4 + 4] = 0

\* C4: applyNegative maps each colour sample r to 255 - r, and applied to
\* its own result gives back the samples of the image it started from.
C4_NegativeInvolution ==
    call.op = "negative" =>
        LET in    == heap[call.src]
            out   == heap[call.dst]
            again == applyNegative(heap, call.dst)
        IN  /\ \A p \in 1..Len(in.data) :
                   (p - 1) % 4 # 3 => out.data[p] = 255 - in.data[p]
            /\ again.heap[again.ret].data = in.data
            /\ again.heap[again.ret].width = in.width
            /\ again.heap[again.ret].height = in.height

\* the negative of a pixel whose red sample is 0
C4_Witness ==
    /\ call.op = "negative"
    /\ heap[call.src].data[1] = 0
    /\ heap[call.dst].data[1] = 255
    /\ heap[call.dst].data # heap[call.src].data

\* C5: with L the levels argument clamped to [2, 256], the lookup table of
\* applyQuantization takes at most L distinct values over the inputs 0..255,
\* all of them in [0, 255], and every colour sample returned is one of
\* them.
C5_AtMostLevels ==
    call.op = "quantization" =>
        LET L    == IF call.arg < 2 THEN 2 ELSE IF call.arg > 256 THEN 256 ELSE call.arg
            outs == {QuantizationLUT(call.arg)[i] : i \in 0..255}
            out  == heap[call.dst]
        IN  /\ Cardinality(outs) <= L
            /\ outs \subseteq 0..255
            /\ \A p \in 1..Len(out.data) : (p - 1) % 4 # 3 => out.data[p] \in outs

\* a quantization to 5 levels, which takes exactly 5 values
C5_Witness ==
    /\ call.op = "quantization"
    /\ call.arg = 5
    /\ Cardinality({QuantizationLUT(call.arg)[i] : i \in 0..255}) = 5
    /\ heap[call.dst].data[1] \in {0, 64, 128, 191, 255}

\* C6: for a binary input, applyErosion writes 255 at a pixel exactly when
\* the nine cells of the 3x3 footprint centred on it are inside the image and
\* white, and 0 otherwise; so the border becomes black.
C6_ErosionBinary ==
    call.op = "erosion" =>
        LET in  == heap[call.src]
            out == heap[call.dst]
            white(x, y) ==
                /\ x >= 0 /\ x < in.width /\ y >= 0 /\ y < in.height
                /\ in.data[(y * in.width + x) * 4 + 1] = 255
            kept(x, y) == \A dx, dy \in {-1, 0, 1} : white(x + dx, y + dy)
        IN  \A x \in 0..(in.width - 1), y \in 0..(in.height - 1), ch \in 0..2 :
                /\ out.data[(y * in.width + x) * 4 + ch + 1] = (IF kept(x, y) THEN 255 ELSE 0)
                /\ (x = 0 \/ y = 0 \/ x = in.width - 1 \/ y = in.height - 1)
                       => out.data[(y * in.width + x) * 4 + ch + 1] = 0

\* an erosion that keeps an inner pixel and blackens a white border
C6_Witness ==
    /\ call.op = "erosion"
    /\ heap[call.src].width >= 3
    /\ heap[call.src].height >= 3
    /\ heap[call.src].data[1] = 255
    /\ heap[call.dst].data[1] = 0
    /\ \E p \in 1..Len(heap[call.dst].data) : (p - 1) % 4 = 0 /\ heap[call.dst].data[p] = 255

\* C7: applyOpening applied to the result of applyOpening on a binary image
\* returns that result again, at every pixel.
C7_OpeningIdempotent ==
    call.op = "opening" =>
        LET once  == heap[call.dst]
            again == applyOpening(heap, call.dst)
        IN  /\ again.heap[again.ret].data = once.data
            /\ again.heap[again.ret].width = once.width
            /\ again.heap[again.ret].height = once.height

\* an opening that removed some white pixels and kept others
C7_Witness ==
    /\ call.op = "opening"
    /\ heap[call.dst].data # heap[call.src].data
    /\ \E p \in 1..Len(heap[call.dst].data) : (p - 1) % 4 = 0 /\ heap[call.dst].data[p] = 255
    /\ \E p \in 1..Len(heap[call.dst].data) : (p - 1) % 4 = 0 /\ heap[call.dst].data[p] = 0

\* C8: applyThreshold(T) writes 255 to the colour samples of a pixel when
\* 0.299 R + 0.587 G + 0.114 B >= T and 0 otherwise (the comparison taken
\* on the exact value, in thousandths).
C8_ThresholdExactLuminance ==
    call.op = "threshold" =>
        LET in  == heap[call.src]
            out == heap[call.dst]
        IN  \A px \in 0..(in.width * in.height - 1), ch \in 0..2 :
                out.data[px * 4 + ch + 1] =
                    (IF 299 * in.data[px * 4 + 1] + 587 * in.data[px * 4 + 2]
                          + 114 * in.data[px * 4 + 3] >= 1000 * call.arg
                     THEN 255 ELSE 0)

\* C9: applyFFTSpectrum pads the height and the width to the smallest powers
\* of two not below them, every fft1D call reached receives a power-of-two
\* length, and no error is thrown.
C9_PowerOfTwoLengths ==
    call.op = "fftSpectrum" =>
        LET isPow2(n) == \E e \in 0..n : Pow2(e) = n
            smallest(p, n) == isPow2(p) /\ p >= n /\ \A q \in n..(p - 1) : ~isPow2(q)
        IN  /\ err = "none"
            /\ call.dst \in DOMAIN heap
            /\ smallest(Len(spectrum), heap[call.src].height)
            /\ smallest(Len(spectrum[1]), heap[call.src].width)
            /\ {Len(spectrum), Len(spectrum[1])} \subseteq fftLens
            /\ \A n \in fftLens : isPow2(n)

\* a transform of an image 3 pixels wide, padded to 4: fft1D ran on the
\* lengths 4, 2 and 1
C9_Witness ==
    /\ call.op = "fftSpectrum"
    /\ heap[call.src].width = 3
    /\ Len(spectrum[1]) = 4
    /\ {1, 2, 4} \subseteq fftLens
    /\ err = "none"

\* C10: the shifted coefficient at [i][j] is the coefficient at
\* [(i + rows/2) mod rows][(j + cols/2) mod cols]; the coefficient of index
\* [0][0] is at [rows/2][cols/2]; every index is the source of exactly one
\* index.
C10_ShiftMapping ==
    call.op = "fftSpectrum" =>
        LET rows == Len(spectrum)
            cols == Len(spectrum[1])
            srcI(i) == (i + rows \div 2) % rows
            srcJ(j) == (j + cols \div 2) % cols
        IN  /\ Len(shifted) = rows
            /\ \A i \in 0..(rows - 1) : Len(shifted[i + 1]) = cols
            /\ \A i \in 0..(rows - 1), j \in 0..(cols - 1) :
                   shifted[i + 1][j + 1] = spectrum[srcI(i) + 1][srcJ(j) + 1]
            /\ shifted[rows \div 2 + 1][cols \div 2 + 1] = spectrum[1][1]
            /\ \A a \in 0..(rows - 1), b \in 0..(cols - 1) :
                   Cardinality({ij \in (0..(rows - 1)) \X (0..(cols - 1)) :
                                    srcI(ij[1]) = a /\ srcJ(ij[2]) = b}) = 1

\* a spectrum of at least 2x2 whose zero-frequency coefficient, the sum of
\* the luminances, differs from its neighbours and sits at the centre
C10_Witness ==
    /\ call.op = "fftSpectrum"
    /\ Len(spectrum) >= 2
    /\ Len(spectrum[1]) >= 2
    /\ spectrum[1][1] # complex(0)
    /\ shifted[1][1] # spectrum[1][1]
    /\ shifted[Len(spectrum) \div 2 + 1][Len(spectrum[1]) \div 2 + 1] = spectrum[1][1]

C12_SameExpressionPerChannel ==
    call.op = "customFormula" =>
        LET in == heap[call.src]
            out == heap[call.dst]
            context(p, c) ==
                [r |-> in.data[4 * p + c + 1], g |-> in.data[4 * p + 2],
                 b |-> in.data[4 * p + 3], x |-> p % in.width, y |-> p \div in.width,
                 w |-> in.width, h |-> in.height]
            value(p, c) == ClampResult(RunFormula(call.arg, context(p, c)).v)
        IN  \A p \in 0..(in.width * in.height - 1) : \A c \in 0..2 :
                RunFormula(call.arg, context(p, c)).st = "ok" =>
                    out.data[4 * p + c + 1] =
                        IF value(p, c).k = "nan" THEN 0 ELSE value(p, c).n

\* C13: when evaluating the expression for a channel throws,
\* applyCustomFormula throws nothing and writes that channel's input
\* sample to the output.
C13_FallbackOnFailure ==
    call.op = "customFormula" =>
        LET in == heap[call.src]
            out == heap[call.dst]
            context(p, c) ==
                [r |-> in.data[4 * p + c + 1], g |-> in.data[4 * p + 2],
                 b |-> in.data[4 * p + 3], x |-> p % in.width, y |-> p \div in.width,
                 w |-> in.width, h |-> in.height]
            text(c) == ReplaceAll(call.arg, <<"r">>, <<(<<"r", "g", "b">>)[c + 1]>>)
        IN  /\ err = "none"
            /\ \A p \in 0..(in.width * in.height - 1) : \A c \in 0..2 :
                  RunFormula(text(c), context(p, c)).st = "error" =>
                      out.data[4 * p + c + 1] = in.data[4 * p + c + 1]

C13_Witness ==
    /\ call.op = "customFormula"
    /\ call.arg = <<"r", " ", "+">>
    /\ heap[call.src].width = 2
    /\ heap[call.dst].data = heap[call.src].data
    /\ heap[call.dst].data[1] = 100
    /\ heap[call.dst].data[6] = 16

\* C14: every call of evaluateFormula made by applyCustomFormula returns
\* an integer in [0, 255].
C14_ReturnsByte ==
    call.op = "customFormula" =>
        LET in == heap[call.src]
            context(p, c) ==
                [r |-> in.data[4 * p + c + 1], g |-> in.data[4 * p + 2],
                 b |-> in.data[4 * p + 3], x |-> p % in.width, y |-> p \div in.width,
                 w |-> in.width, h |-> in.height]
            text(c) == ReplaceAll(call.arg, <<"r">>, <<(<<"r", "g", "b">>)[c + 1]>>)
            returned(p, c) == evaluateFormula(text(c), context(p, c))
        IN  \A p \in 0..(in.width * in.height - 1) : \A c \in 0..2 :
                /\ returned(p, c).k = "num"
                /\ returned(p, c).d = 1
                /\ returned(p, c).n \in 0..255

\* C15: when the formula uses a name other than r, g, b, x, y, w, h, the
\* whitelisted functions, PI and E, evaluation fails: every colour sample
\* of the output is the input sample, the fallback.
C15_OnlyWhitelistedNames ==
    call.op = "customFormula" =>
        LET in == heap[call.src]
            out == heap[call.dst]
            s == call.arg
            inName(i) == s[i] \in Letters \/ \E d \in 1..10 : Digits[d] = s[i]
            names == {SubSeq(s, i, j) : <<i, j>> \in
                        {q \in (1..Len(s)) \X (1..Len(s)) :
                            /\ q[1] <= q[2]
                            /\ s[q[1]] \in Letters
                            /\ \A m \in q[1]..q[2] : inName(m)
                            /\ q[1] = 1 \/ ~inName(q[1] - 1)
                            /\ q[2] = Len(s) \/ ~inName(q[2] + 1)}}
            whitelist == {<<"r">>, <<"g">>, <<"b">>, <<"x">>, <<"y">>, <<"w">>, <<"h">>,
                          <<"P", "I">>, <<"E">>}
                         \cup {FormulaFunctions[i] : i \in 1..Len(FormulaFunctions)}
        IN  ~(names \subseteq whitelist) =>
                \A p \in 1..Len(out.data) : out.data[p] = in.data[p]

\* C16: the box blur, the Gaussian blur and the median filter called with
\* an even size return what they return for a nearest odd size, and throw
\* nothing.
C16_SizeNormalized ==
    call.op \in {"boxBlur", "gaussianBlur", "median"} =>
        LET size == call.arg
            nearest == IF size % 2 = 1 THEN {size} ELSE {size - 1, size + 1}
            with(n) ==
                CASE call.op = "boxBlur" -> applyBoxBlur(<<heap[call.src]>>, 1, n)
                  [] call.op = "gaussianBlur" -> applyGaussianBlur(<<heap[call.src]>>, 1, n)
                  [] call.op = "median" -> applyMedian(<<heap[call.src]>>, 1, n)
        IN  /\ err = "none"
            /\ \E n \in nearest : heap[call.dst].data = with(n).heap[2].data

\* C17: applyConvolution with a kernel of odd size that is 1 at the centre
\* and 0 elsewhere returns a buffer whose samples all equal the input's.
C17_IdentityKernel ==
    call.op = "convolution" =>
        LET k == Len(call.arg.num)
        IN  (/\ k % 2 = 1
             /\ call.arg.den = 1
             /\ \A y \in 1..k : \A x \in 1..k :
                    call.arg.num[y][x] =
                        IF x = k \div 2 + 1 /\ y = k \div 2 + 1 THEN 1 ELSE 0)
            => heap[call.dst].data = heap[call.src].data

C17_Witness ==
    /\ call.op = "convolution"
    /\ Len(call.arg.num) = 5
    /\ call.arg.num[3][3] = 1
    /\ heap[call.src].width = 3
    /\ heap[call.src].height = 2
    /\ heap[call.src].data[1] # heap[call.src].data[5]
    /\ heap[call.dst].data = heap[call.src].data

\* C18: applyGamma with gamma = 1 and c = 1 returns every colour sample
\* within 1 of its input value.
C18_GammaOneIdentity ==
    (call.op = "gamma" /\ call.arg = <<2, 1>>) =>
        \A p \in 1..Len(heap[call.src].data) :
            ChannelOf(p) # 3 =>
                /\ heap[call.dst].data[p] >= heap[call.src].data[p] - 1
                /\ heap[call.dst].data[p] <= heap[call.src].data[p] + 1

C18_Witness ==
    /\ call.op = "gamma"
    /\ call.arg = <<2, 1>>
    /\ heap[call.src].data[1] = 200
    /\ heap[call.dst].data[1] = 200
    /\ heap[call.dst].data[2] = 55

\* C19: applyEqualization of an image whose pixels all have the same
\* colour writes one single value to all the output samples of a channel.
C19_UniformToSingleValue ==
    call.op = "equalization" =>
        LET in == heap[call.src].data
            out == heap[call.dst].data
        IN  (\A p \in 1..Len(in) : in[p] = in[ChannelOf(p) + 1]) =>
                \A p \in 1..Len(out) : out[p] = out[ChannelOf(p) + 1]

C19_Witness ==
    /\ call.op = "equalization"
    /\ heap[call.src].width = 2
    /\ heap[call.src].height = 2
    /\ \A p \in 1..16 : heap[call.src].data[p] = IF ChannelOf(p) = 3 THEN 255 ELSE 100
    /\ \A p \in 1..16 : heap[call.dst].data[p] = 255

\* C20: applyLaplacian writes, for every pixel and colour channel,
\* min(255, |S|), S being the sum of the neighbours above, below, left and
\* right minus four times the pixel, the neighbours outside the image taken
\* at the nearest edge pixel; on an image of one colour every colour sample
\* written is 0.
C20_LaplacianMagnitude ==
    call.op = "laplacian" =>
        LET in  == heap[call.src]
            out == heap[call.dst]
            clamp(v, hi) == IF v < 0 THEN 0 ELSE IF v > hi THEN hi ELSE v
            sample(x, y, c) ==
                in.data[(clamp(y, in.height - 1) * in.width + clamp(x, in.width - 1)) * 4
                        + c + 1]
            S(x, y, c) == sample(x, y - 1, c) + sample(x, y + 1, c) + sample(x - 1, y, c)
                          + sample(x + 1, y, c) - 4 * sample(x, y, c)
            mag(v) == IF v < 0 THEN -v ELSE v
        IN  /\ \A x \in 0..(in.width - 1) : \A y \in 0..(in.height - 1) : \A c \in 0..2 :
                  out.data[(y * in.width + x) * 4 + c + 1] =
                      IF mag(S(x, y, c)) > 255 THEN 255 ELSE mag(S(x, y, c))
            /\ (\A p \in 1..Len(in.data) : in.data[p] = in.data[ChannelOf(p) + 1]) =>
                  \A p \in 1..Len(out.data) : ChannelOf(p) # 3 => out.data[p] = 0

C20_Witness ==
    /\ call.op = "laplacian"
    /\ heap[call.src].width = 3
    /\ heap[call.src].height = 3
    /\ heap[call.src].data[17] = 250
    /\ heap[call.src].data[1] = 11
    /\ heap[call.dst].data[17] = 255
    /\ heap[call.dst].data[1] = 0
    /\ heap[call.dst].data[5] = 239


\* C21: with L the levels argument clamped to [2, 256] and k = 256 / L,
\* applyQuantization writes for a colour sample r the value
\* floor(r / k) * k + k / 2, taken to the nearest 8-bit value (within 1 of
\* it, since k / 2 need not be an integer); r = 127 with 8 levels gives 112.
C21_QuantizationFormula ==
    call.op = "quantization" =>
        LET L   == Max2(2, Min2(256, call.arg))
            in  == heap[call.src]
            out == heap[call.dst]
        IN  \A p \in 1..Len(out.data) :
                (p - 1) % 4 # 3 =>
                    Abs(L * out.data[p] - (((in.data[p] * L) \div 256) * 256 + 128)) <= L


\* C22: when every worker has computed the rows it was given, in whatever
\* order and interleaving, the buffer written equals the buffer the
\* operation returns from its sequential loop over y and x.
C22_RowOrderIndependent ==
    (/\ workers # <<>>
     /\ \A w \in DOMAIN workers : workers[w].rows = {} /\ workers[w].y = -1) =>
        LET in == <<heap[call.src]>>
            sequential ==
                CASE call.op = "convolution" -> applyConvolution(in, 1, call.arg)
                  [] call.op = "erosion" -> applyErosion(in, 1)
                  [] call.op = "dilation" -> applyDilation(in, 1)
                  [] call.op = "median" -> applyMedian(in, 1, call.arg)
        IN  heap[call.dst] = sequential.heap[2]

\* two workers are done: one computed the bottom row before the top row,
\* the other the row between them, and the buffer written is not the
\* input
C22_Witness ==
    /\ Len(workers) = 2
    /\ workers[1].did = <<2, 0>> /\ workers[1].rows = {} /\ workers[1].y = -1
    /\ workers[2].did = <<1>> /\ workers[2].rows = {} /\ workers[2].y = -1
    /\ heap[call.src].width = 3
    /\ call.op = "convolution"
    /\ heap[call.dst].data # heap[call.src].data


\* C23: an undo made right after a filter selection, a parameter change or
\* a reset leaves the active filter and the parameters that were in effect
\* before that change.
C23_UndoRestoresPrevious ==
    (call.op = "handleUndo" /\ call.arg # <<>>) =>
        /\ activeFilter = call.arg[1].activeFilter
        /\ filterParams = call.arg[1].filterParams


\* C24: in the App with the worker, whenever isProcessing is false and an
\* image is loaded, processedImage is the active filter applied with the
\* current parameters to the current original image, the original itself
\* for the filter 'none'.
C24_ProcessedIsCurrent ==
    (~isProcessing /\ originalImage # NoImage) =>
        processedImage = IF activeFilter = "none" THEN originalImage
                         ELSE processImage(originalImage, activeFilter, filterParams)


\* C25: every promise returned by the hook's processImage is eventually
\* settled, that is resolved or rejected.
C25_PromiseSettles ==
    \A k \in 1..(MaxEvents + 1) :
        (k \in DOMAIN promises) ~> (k \in DOMAIN promises /\ promises[k].state # "pending")


\* C26: the history never holds more than 50 states, currentIndex is -1
\* exactly when the history is empty and otherwise lies in
\* 0..historyLength - 1; a push keeps the states up to the current one,
\* appends the pushed state, drops the oldest state when that makes 51, and
\* leaves the pushed state current, with canRedo false.
C26_HistoryBounded ==
    /\ [](/\ Len(history) <= 50
          /\ (currentIndex = -1) <=> (history = <<>>)
          /\ history # <<>> => (0 <= currentIndex /\ currentIndex <= Len(history) - 1))
    /\ [][call'.op = "push" =>
            LET kept == [k \in 1..(currentIndex + 1) |-> history[k]] \o <<call'.arg>>
                canRedo == currentIndex' < Len(history') - 1
            IN  /\ history' = IF Len(kept) > 50
                               THEN [k \in 1..50 |-> kept[k + 1]] ELSE kept
                /\ history'[currentIndex' + 1] = call'.arg
                /\ ~canRedo]_vars

\* a push on a full history whose last state is current: the oldest state
\* was dropped
C26_Witness ==
    /\ call.op = "push"
    /\ Len(history) = 50
    /\ currentIndex = 49
    /\ history[1].filterParams.threshold = 2
    /\ history[49].filterParams.threshold = 50
    /\ history[50].activeFilter = "sepia"

\* C27: for every filter type and every parameter set, processImageSync of
\* the main thread returns the same image as processImage of the worker
\* for the same input image
C27_SyncEqualsWorker ==
    call.op = "processImage" => heap[2] = heap[3]

\* C28: applyErosion and applyDilation read only the red channel: the red,
\* green and blue samples of every output pixel equal the minimum (erosion,
\* with the cells outside the image counted as 0) or the maximum (dilation)
\* of the red samples of the 3x3 neighbourhood, and two inputs that differ
\* in green and blue samples only give the same output
C28_RedChannelOnly ==
    call.op \in {"erosion", "dilation"} /\ call.arg # <<>> =>
        LET img == heap[1]
            out == heap[3]
            red(x, y) == img.data[(y * img.width + x) * 4 + 1]
            near(x, y) == {c \in ((x - 1)..(x + 1)) \X ((y - 1)..(y + 1)) :
                             /\ c[1] >= 0 /\ c[1] < img.width
                             /\ c[2] >= 0 /\ c[2] < img.height}
            reds(x, y) == {red(c[1], c[2]) : c \in near(x, y)}
            expected(x, y) ==
                IF call.op = "erosion"
                THEN IF Cardinality(near(x, y)) < 9 THEN 0
                     ELSE CHOOSE m \in reds(x, y) : \A v \in reds(x, y) : m <= v
                ELSE CHOOSE m \in reds(x, y) : \A v \in reds(x, y) : m >= v
        IN  /\ heap[4] = out
            /\ \A x \in 0..(img.width - 1), y \in 0..(img.height - 1) :
                 \A c \in 0..2 :
                    out.data[(y * img.width + x) * 4 + c + 1] = expected(x, y)

\* an erosion of two inputs with different green and blue samples gave a
\* pixel that is not 0, which is the least red sample of its neighbourhood
C28_Witness ==
    /\ call.op = "erosion"
    /\ call.arg # <<>>
    /\ heap[1] # heap[2]
    /\ heap[1].width >= 3
    /\ heap[1].height >= 3
    /\ heap[3].data[(heap[1].width + 1) * 4 + 1] > 0
    /\ heap[3].data[(heap[1].width + 1) * 4 + 1] # heap[1].data[(heap[1].width + 1) * 4 + 1]

\* C29: applyQuantization is idempotent for every integer levels in 2..256:
\* quantizing the quantized image again with the same levels returns it, and
\* the lookup table maps every value it produces to itself
C29_QuantizationIdempotent ==
    (call.op = "quantization" /\ call.arg \in 2..256) =>
        LET once  == heap[call.dst]
            again == applyQuantization(heap, call.dst, call.arg)
            lut   == QuantizationLUT(call.arg)
        IN  /\ again.heap[again.ret] = once
            /\ \A i \in 0..255 : lut[lut[i]] = lut[i]

\* 8 levels took the sample 127 to 109, the third of the multiples of 255/7
C29_Witness ==
    /\ call.op = "quantization"
    /\ call.arg = 8
    /\ heap[call.src].data[1] = 127
    /\ heap[call.dst].data[1] = 109
    /\ QuantizationLUT(8)[109] = 109

\* C30: applyEqualization is idempotent: equalizing the equalized image
\* returns it
C30_EqualizationIdempotent ==
    call.op = "equalization" =>
        LET once  == heap[call.dst]
            again == applyEqualization(heap, call.dst)
        IN  again.heap[again.ret] = once

\* an image of more than 255 pixels was equalized, the result differs from
\* it, and two red levels of the input became one level of the result
C30_Witness ==
    /\ call.op = "equalization"
    /\ heap[call.src].width > 255
    /\ heap[call.dst] # heap[call.src]
    /\ \E p, q \in 1..(Len(heap[call.src].data) \div 4) :
          /\ heap[call.src].data[4 * p - 3] # heap[call.src].data[4 * q - 3]
          /\ heap[call.dst].data[4 * p - 3] = heap[call.dst].data[4 * q - 3]

=============================================================================
